---- MODULE Spec2Model ----
(***************************************************************************)
(* RunKV storage core: the in-memory raft log index (MemStates, mem.rs)    *)
(* and the raft log store built on it (RaftLogStore, store.rs).            *)
(*                                                                         *)
(* Spec      : MemStates driven directly through its public operations.    *)
(* SpecStore : RaftLogStore (log push, then MemStates; reads through the   *)
(*             block cache; drop and reopen with replay).                  *)
(* SpecMeta, SpecMemtable, SpecConcat, SpecSstable : the LSM tree's        *)
(*             SSTable meta codec and its memtable, concat and sstable     *)
(*             iterators, each introduced where it is defined.             *)
(* SpecBuilder, SpecFetch : the SSTable builder, and the sstable iterator  *)
(*             over a store whose block fetches may fail.                  *)
(* SpecRemove, SpecConcurrent, SpecLocks : MemStates on removed groups,    *)
(*             RaftLogStore called for several groups at once, and the     *)
(*             locks of MemStates under calls that run at once.            *)
(***************************************************************************)
EXTENDS Integers, Sequences, FiniteSets, TLC

VARIABLES
    states,       \* MemStates.states: group -> MemState (BTreeMap, mem.rs:34)
    last,         \* history: the last call, its arguments, the map before it, its result
    log,          \* the append log: records pushed so far, in push order
    active,       \* the append log's active file: [file_id, len]
    block_cache,  \* RaftLogStoreCore.block_cache: <<file_id, key>> -> block
    opened,       \* TRUE while a RaftLogStore is open on the directory
    clean,        \* history: only successful append/compact/put/delete so far
    table,        \* what an LSM iterator reads (rows, children, blocks); the
                  \* SSTable builder; the calls running at once on MemStates
    cursor,       \* the LSM iterator under test; the built SSTable; the calls in
                  \* flight on the store; the locks of MemStates
    yielded       \* history: the scan since the last seek, the keys added

vars == <<states, last, log, active, block_cache, opened, clean,
          table, cursor, yielded>>

(***************************************************************************)
(* Bounds of the model.                                                    *)
(***************************************************************************)
MaxIndex == 2     \* raft indices 0..MaxIndex; a group's next_index stays <= MaxIndex
MaxBatch == 2     \* a batch given to append holds 1..MaxBatch indices
MaxLog == 2       \* entries pushed to the append log
MaxFileId == 2    \* log files: reopening rotates the active file while below this id
LogFileCapacity == 16   \* RaftLogStoreOptions.log_file_capacity of the modelled store

Groups == {1}                 \* group ids used against MemStates
StoreGroups == {1, 2}         \* group ids used against RaftLogStore
Terms == {1, 2}               \* a lower and a higher term
Keys == {"k1"}
Values == {"v1"}
StoreFirstIndexes == {0, 2}   \* first_index of the batches given to RaftLogStore
StoreBatchLens == {1, 2}      \* their number of entries
StoreIndexes == {0, 1, 2}     \* index of a compact or entries call on RaftLogStore
RaftIndexes == 0..MaxIndex

\* u64::MAX, the first_index remove_group leaves behind (mem.rs:86).  No
\* arithmetic is done on it: a removed group is never used again.
U64_MAX == 2147483647

\* usize::MAX on the 64-bit targets the store is built for: usize is as wide
\* as u64
USIZE_MAX == U64_MAX

\* a + b in u64 / usize: whether it overflows, and what it wraps to when the
\* build has no overflow checks
overflows(a, b) == a > U64_MAX - b
wrapping_add(a, b) == IF overflows(a, b) THEN a - (U64_MAX - b) - 1 ELSE a + b

(***************************************************************************)
(* Results.                                                                *)
(***************************************************************************)
Ok == [kind |-> "Ok", start |-> 0, end |-> 0]
RaftLogGap(start, end) == [kind |-> "RaftLogGap", start |-> start, end |-> end]
GroupNotExists(group) == [kind |-> "GroupNotExists", start |-> group, end |-> group]
GroupAlreadyExists(group) == [kind |-> "GroupAlreadyExists", start |-> group, end |-> group]
\* an unwinding panic of the calling task (slice or drain range out of bounds)
Panic == [kind |-> "Panic", start |-> 0, end |-> 0]

(***************************************************************************)
(* MemState and EntryIndex.                                                *)
(***************************************************************************)
EntryIndex(term, ctx, file_id, block_offset, block_len, offset, len) ==
    [term |-> term, ctx |-> ctx, file_id |-> file_id, block_offset |-> block_offset,
     block_len |-> block_len, offset |-> offset, len |-> len]

EmptyMap == <<>>

\* the state add_group and may_add_group insert
NewMemState ==
    [first_index |-> 0, mask_index |-> 0, indices |-> <<>>, kvs |-> EmptyMap]

next_index_of(state) == state.first_index + Len(state.indices)

\* the caller's obligation on remove_group: the group is never used again
Removed(state) == state.first_index = U64_MAX

Insert(map, k, v) == [x \in (DOMAIN map) \cup {k} |-> IF x = k THEN v ELSE map[x]]
Remove(map, k) == [x \in (DOMAIN map) \ {k} |-> map[x]]

Drain(seq, n) == SubSeq(seq, n + 1, Len(seq))     \* what is left after drain(..n)
Take(seq, n) == SubSeq(seq, 1, n)

(***************************************************************************)
(* MemStates::append, on the state of the group.                           *)
(***************************************************************************)
mutant_append_gap(state_next_index, first_index) ==
    IF state_next_index # 0 /\ first_index > state_next_index
    THEN RaftLogGap(first_index, state_next_index)
    ELSE Ok

\* the gap check: Err(RaftLogGap) unless the group is empty
append_gap(state_next_index, first_index) ==
    IF state_next_index # 0 /\ first_index > state_next_index
    THEN RaftLogGap(state_next_index, first_index)
    ELSE Ok

\* "Accpet anyway": an empty group takes the batch's first_index
append_accept(state, first_index) ==
    IF next_index_of(state) = 0
    THEN [state EXCEPT !.first_index = first_index]
    ELSE state

\* "Ignore outdated indices": drain(..state.first_index - first_index) panics
\* when the range end is past the batch's length
append_outdated(state_first_index, first_index, indices) ==
    IF first_index < state_first_index
    THEN IF state_first_index - first_index > Len(indices)
         THEN [panic |-> TRUE, first_index |-> first_index, indices |-> indices]
         ELSE [panic |-> FALSE, first_index |-> state_first_index,
               indices |-> Drain(indices, state_first_index - first_index)]
    ELSE [panic |-> FALSE, first_index |-> first_index, indices |-> indices]

mutant_append_new(state_next_index, first_index, indices) == indices

\* "Directly append new indices": the part of the batch at and past next_index
append_new(state_next_index, first_index, indices) ==
    IF state_next_index - first_index < Len(indices)
    THEN Drain(indices, state_next_index - first_index)
    ELSE <<>>

\* what append_new leaves in the batch
append_rest(state_next_index, first_index, indices) ==
    IF state_next_index - first_index < Len(indices)
    THEN Take(indices, state_next_index - first_index)
    ELSE indices

mutant_append_rewrite(state_index, index) == index

\* "Ignore outdated rewrite indices"
append_rewrite(state_index, index) ==
    IF state_index.term > index.term THEN state_index ELSE index

\* "Update overlapping indices"
append_overlap(state_indices, overlap_start, indices) ==
    [i \in 1..Len(state_indices) |->
        IF i > overlap_start /\ i <= overlap_start + Len(indices)
        THEN append_rewrite(state_indices[i], indices[i - overlap_start])
        ELSE state_indices[i]]

append(state, first_index, indices) ==
    LET state_next_index0 == next_index_of(state)
        gap == append_gap(state_next_index0, first_index)
        accepted == append_accept(state, first_index)
        state_next_index == IF state_next_index0 = 0 THEN first_index
                            ELSE state_next_index0
        cut == append_outdated(accepted.first_index, first_index, indices)
    IN  IF gap.kind # "Ok" THEN [state |-> state, result |-> gap]
        ELSE IF cut.panic THEN [state |-> accepted, result |-> Panic]
        ELSE IF first_index < accepted.first_index /\ cut.indices = <<>>
             THEN [state |-> accepted, result |-> Ok]
        ELSE LET extended == accepted.indices
                                \o append_new(state_next_index, cut.first_index, cut.indices)
                 rest == append_rest(state_next_index, cut.first_index, cut.indices)
                 overlap_start == cut.first_index - accepted.first_index
             IN  [state |-> [accepted EXCEPT
                                !.indices = append_overlap(extended, overlap_start, rest)],
                  result |-> Ok]

(***************************************************************************)
(* MemStates::truncate, compact, mask, put, delete, remove_group.          *)
(***************************************************************************)
mutant_truncate_gap(state, index) ==
    IF index < state.first_index \/ index >= next_index_of(state)
    THEN [state |-> state, result |-> Ok]
    ELSE [state |-> [state EXCEPT !.indices = Take(@, index - state.first_index)],
          result |-> Ok]

mutant_truncate_to(state, index) ==
    IF index < state.first_index
    THEN [state |-> state, result |-> RaftLogGap(index, state.first_index)]
    ELSE IF index >= next_index_of(state)
    THEN [state |-> state, result |-> Ok]
    ELSE [state |-> [state EXCEPT !.indices = Take(@, index - state.first_index + 1)],
          result |-> Ok]

truncate(state, index) ==
    IF index < state.first_index
    THEN [state |-> state, result |-> RaftLogGap(index, state.first_index)]
    ELSE IF index >= next_index_of(state)
    THEN [state |-> state, result |-> Ok]
    ELSE [state |-> [state EXCEPT !.indices = Take(@, index - state.first_index)],
          result |-> Ok]

\* "Ignore outdated compact command"
compact_outdated(state, index) == index <= state.first_index

mutant_compact_all(state) == [state EXCEPT !.indices = <<>>]

\* the compact command is past next_index: everything is dropped
compact_all(state) == [state EXCEPT !.indices = <<>>, !.first_index = 0]

mutant_compact_to(state, index) ==
    [state EXCEPT !.indices = Drain(@, index - state.first_index)]

\* "Truncate indices"
compact_to(state, index) ==
    [state EXCEPT !.indices = Drain(@, index - state.first_index),
                  !.first_index = index]

compact(state, index) ==
    IF compact_outdated(state, index) THEN [state |-> state, result |-> Ok]
    ELSE IF index > next_index_of(state)
    THEN [state |-> compact_all(state), result |-> Ok]
    ELSE [state |-> compact_to(state, index), result |-> Ok]

mask(state, index) ==
    IF index > next_index_of(state)
    THEN [state |-> [state EXCEPT !.indices = <<>>, !.first_index = 0, !.mask_index = 0],
          result |-> Ok]
    ELSE [state |-> [state EXCEPT !.mask_index = index], result |-> Ok]

put(state, key, value) ==
    [state |-> [state EXCEPT !.kvs = Insert(@, key, value)], result |-> Ok]

delete(state, key) ==
    [state |-> [state EXCEPT !.kvs = Remove(@, key)], result |-> Ok]

\* remove_group that leaves the kv map
mutant_remove_group(state) ==
    [state |-> [state EXCEPT !.first_index = U64_MAX, !.indices = <<>>],
     result |-> Ok]

remove_group(state) ==
    [state |-> [state EXCEPT !.first_index = U64_MAX, !.indices = <<>>,
                             !.kvs = EmptyMap],
     result |-> Ok]

(***************************************************************************)
(* The calls on MemStates.  Every per-group call resolves the group in the *)
(* map first (GroupNotExists), then works on the group's state.            *)
(***************************************************************************)
Call(op, group, args, result) ==
    [op |-> op, group |-> group, args |-> args, pre |-> states, result |-> result]

NoArgs == [index |-> 0]

mutant_OnGroup(op, group, args, out) ==
    /\ states' = [g \in DOMAIN states |-> out.state]
    /\ last' = Call(op, group, args, out.result)

\* a per-group call: `out` is the [state, result] the operation computes
OnGroup(op, group, args, out) ==
    /\ states' = [states EXCEPT ![group] = out.state]
    /\ last' = Call(op, group, args, out.result)

mutant_NotExists(op, group, args) ==
    /\ group \notin DOMAIN states
    /\ states' = Insert(states, group, NewMemState)
    /\ last' = Call(op, group, args, Ok)

NotExists(op, group, args) ==
    /\ group \notin DOMAIN states
    /\ states' = states
    /\ last' = Call(op, group, args, GroupNotExists(group))

StoreVars == <<log, active, block_cache, opened, clean>>

\* the variables of the LSM iterators, untouched by the raft log store
LsmVars == <<table, cursor, yielded>>

\* no LSM iterator exists
LsmIdle ==
    /\ table = <<>>
    /\ cursor = <<>>
    /\ yielded = <<>>

MemAddGroup(group) ==
    /\ IF group \in DOMAIN states
       THEN /\ states' = states
            /\ last' = Call("add_group", group, NoArgs, GroupAlreadyExists(group))
       ELSE /\ states' = Insert(states, group, NewMemState)
            /\ last' = Call("add_group", group, NoArgs, Ok)
    /\ UNCHANGED <<StoreVars, LsmVars>>

Usable(group) == group \in DOMAIN states /\ ~Removed(states[group])

MemRemoveGroup(group) ==
    /\ \/ NotExists("remove_group", group, NoArgs)
       \/ /\ Usable(group)
          /\ OnGroup("remove_group", group, NoArgs, remove_group(states[group]))
    /\ UNCHANGED <<StoreVars, LsmVars>>

\* the batches a caller hands to append: gen_indices of the tests, with the
\* term and the ctx varying per entry
Indices ==
    {EntryIndex(t, c, 1, 0, 0, 0, 0) : t \in Terms, c \in {<<>>, <<1>>}}

Batches == UNION {[1..n -> Indices] : n \in 1..MaxBatch}

MemAppend(group, first_index, indices) ==
    /\ LET args == [first_index |-> first_index, indices |-> indices]
       IN  \/ NotExists("append", group, args)
           \/ /\ Usable(group)
              /\ LET out == append(states[group], first_index, indices)
                 IN  /\ next_index_of(out.state) <= MaxIndex
                     /\ OnGroup("append", group, args, out)
    /\ UNCHANGED <<StoreVars, LsmVars>>

MemTruncate(group, index) ==
    /\ \/ NotExists("truncate", group, [index |-> index])
       \/ /\ Usable(group)
          /\ OnGroup("truncate", group, [index |-> index],
                     truncate(states[group], index))
    /\ UNCHANGED <<StoreVars, LsmVars>>

MemCompact(group, index) ==
    /\ \/ NotExists("compact", group, [index |-> index])
       \/ /\ Usable(group)
          /\ OnGroup("compact", group, [index |-> index],
                     compact(states[group], index))
    /\ UNCHANGED <<StoreVars, LsmVars>>

MemMask(group, index) ==
    /\ \/ NotExists("mask", group, [index |-> index])
       \/ /\ Usable(group)
          /\ OnGroup("mask", group, [index |-> index], mask(states[group], index))
    /\ UNCHANGED <<StoreVars, LsmVars>>

Init ==
    /\ states = EmptyMap
    /\ last = [op |-> "new", group |-> 0, args |-> NoArgs, pre |-> EmptyMap,
               result |-> Ok]
    /\ log = <<>>
    /\ active = [file_id |-> 1, len |-> 0]
    /\ block_cache = EmptyMap
    /\ opened = FALSE
    /\ clean = TRUE
    /\ LsmIdle

Next ==
    \/ \E group \in Groups : MemAddGroup(group)
    \/ \E group \in Groups : MemRemoveGroup(group)
    \/ \E group \in Groups, first_index \in RaftIndexes, indices \in Batches :
            MemAppend(group, first_index, indices)
    \/ \E group \in Groups, index \in 0..(MaxIndex + 1) : MemTruncate(group, index)
    \/ \E group \in Groups, index \in 0..(MaxIndex + 1) : MemCompact(group, index)
    \/ \E group \in Groups, index \in 0..(MaxIndex + 1) : MemMask(group, index)

Spec == Init /\ [][Next]_vars

(***************************************************************************)
(* MemStates::entries, on the state of the group.                          *)
(***************************************************************************)
entries(state, index, max_len) ==
    IF index < state.first_index
    THEN [result |-> RaftLogGap(index, state.first_index), indices |-> <<>>]
    ELSE IF index >= next_index_of(state)
    THEN [result |-> RaftLogGap(next_index_of(state), index), indices |-> <<>>]
    ELSE LET start == index - state.first_index
             \* start + max_len is a usize addition: with overflow checks it
             \* panics when it overflows, without them it wraps below start
             \* and the slice [start..end] panics
             sum == wrapping_add(start, max_len)
             end == IF sum < Len(state.indices) THEN sum ELSE Len(state.indices)
         IN  IF overflows(start, max_len) \/ start > end
             THEN [result |-> Panic, indices |-> <<>>]
             ELSE [result |-> Ok, indices |-> SubSeq(state.indices, start + 1, end)]

(***************************************************************************)
(* The raft log batch, the append log and the block cache.  Their code is  *)
(* not part of the sources at hand: they follow the design (sections 4.5,  *)
(* 4.9, 4.10) and the store's tests.                                       *)
(***************************************************************************)
\* the payload of one raft entry, as the store's test writes it
data(group, term, index) == <<group, term, index>>

RaftLogBatch(group, term, first_index, n) ==
    [type |-> "RaftLogBatch", group |-> group, term |-> term,
     first_index |-> first_index,
     payloads |-> [i \in 1..n |-> data(group, term, first_index + i - 1)]]

CompactEntry(group, index) == [type |-> "Compact", group |-> group, index |-> index]
PutEntry(group, key, value) ==
    [type |-> "Put", group |-> group, key |-> key, value |-> value]
DeleteEntry(group, key) == [type |-> "Delete", group |-> group, key |-> key]

RECURSIVE Concat(_)
Concat(seqs) == IF seqs = <<>> THEN <<>> ELSE Head(seqs) \o Concat(Tail(seqs))

\* the uncompressed data segment: the payloads one after another
batch_payload(batch) == Concat(batch.payloads)

\* RaftLogBatch::location(i): (offset, len) of entry i in the payload
batch_location(batch, i) ==
    [offset |-> Len(Concat(SubSeq(batch.payloads, 1, i - 1))),
     len |-> Len(batch.payloads[i])]

\* the compressed data segment as the file holds it, and its decompression
compress(payload) == <<"lz4", payload>>
extract_data_segment(raw) == raw[2]

\* RaftLogBatch::data_segment_location(): the segment follows the batch's
\* header (group, term, first_index) and one (offset, len) pair per entry
data_segment_location(batch) ==
    [offset |-> 3 + 2 * Len(batch.payloads), len |-> Len(batch_payload(batch))]

\* bytes one pushed entry takes in the file: the type tag, then the entry
entry_len(entry) ==
    1 + (CASE entry.type = "RaftLogBatch" ->
                data_segment_location(entry).offset + data_segment_location(entry).len
           [] entry.type = "Compact" -> 2
           [] entry.type = "Put" -> 3
           [] entry.type = "Delete" -> 2)

\* Log::push: the entry goes to the end of the active file, which is
\* rotated once it has crossed the capacity
log_push_location == [file_id |-> active.file_id, write_offset |-> active.len]

log_push(entry) ==
    /\ log' = log \o <<[file_id |-> active.file_id, write_offset |-> active.len,
                        entry |-> entry]>>
    /\ active' = IF active.len + entry_len(entry) >= LogFileCapacity
                 THEN [file_id |-> active.file_id + 1, len |-> 0]
                 ELSE [active EXCEPT !.len = @ + entry_len(entry)]

\* Log::read(file_id, offset, len): the bytes of the data segment that
\* starts there
log_read(file_id, offset, len) ==
    LET r == CHOOSE r \in {log[i] : i \in 1..Len(log)} :
                 /\ r.entry.type = "RaftLogBatch"
                 /\ r.file_id = file_id
                 /\ r.write_offset + data_segment_location(r.entry).offset + 1 = offset
    IN  compress(batch_payload(r.entry))

\* BlockCache::get_or_insert_with(file_id, key, fetch)
get_or_insert_with(cache, key, fetched) ==
    IF key \in DOMAIN cache
    THEN [cache |-> cache, block |-> cache[key]]
    ELSE [cache |-> Insert(cache, key, fetched), block |-> fetched]

(***************************************************************************)
(* RaftLogStore (store.rs).                                                *)
(***************************************************************************)
\* the EntryIndex list RaftLogStore::append records for a pushed batch
append_indices(batch, file_id, write_offset) ==
    [i \in 1..Len(batch.payloads) |->
        EntryIndex(batch.term, <<>>, file_id,
                   write_offset + data_segment_location(batch).offset + 1,
                   data_segment_location(batch).len,
                   batch_location(batch, i).offset, batch_location(batch, i).len)]

mutant_open_indices(batch, file_id, write_offset) ==
    [i \in 1..Len(batch.payloads) |->
        EntryIndex(batch.term, <<>>, file_id,
                   write_offset + data_segment_location(batch).offset,
                   data_segment_location(batch).len,
                   batch_location(batch, i).offset, batch_location(batch, i).len)]

\* the EntryIndex list RaftLogStore::open rebuilds for a replayed batch
open_indices(batch, file_id, write_offset) ==
    [i \in 1..Len(batch.payloads) |->
        EntryIndex(batch.term, <<>>, file_id,
                   write_offset + data_segment_location(batch).offset + 1,
                   data_segment_location(batch).len,
                   batch_location(batch, i).offset, batch_location(batch, i).len)]

\* the key RaftLogStore::entry hands to the block cache
entry_cache_key(index) == <<index.file_id, index.offset>>

\* RaftLogStore::entry: the block through the cache, then the slice
entry(cache, index) ==
    LET got == get_or_insert_with(
                   cache, entry_cache_key(index),
                   extract_data_segment(
                       log_read(index.file_id, index.block_offset, index.block_len)))
    IN  IF index.offset + index.len > Len(got.block)
        THEN [cache |-> got.cache, result |-> Panic, bytes |-> <<>>]
        ELSE [cache |-> got.cache, result |-> Ok,
              bytes |-> SubSeq(got.block, index.offset + 1, index.offset + index.len)]

\* the loop of RaftLogStore::entries over the indices MemStates returned
RECURSIVE read_entries(_, _, _)
read_entries(cache, indices, read) ==
    IF indices = <<>> THEN [cache |-> cache, result |-> Ok, entries |-> read]
    ELSE LET one == entry(cache, Head(indices))
         IN  IF one.result.kind # "Ok"
             THEN [cache |-> one.cache, result |-> one.result, entries |-> <<>>]
             ELSE read_entries(one.cache, Tail(indices), Append(read, one.bytes))

\* MemStates::may_add_group
may_add_group(map, group) ==
    IF group \in DOMAIN map THEN map ELSE Insert(map, group, NewMemState)

\* one replayed entry applied to the states being rebuilt
open_apply(map, record) ==
    LET e == record.entry
        added == may_add_group(map, e.group)
        out == CASE e.type = "RaftLogBatch" ->
                        append(added[e.group], e.first_index,
                               open_indices(e, record.file_id, record.write_offset))
                 [] e.type = "Compact" -> compact(added[e.group], e.index)
                 [] e.type = "Put" -> put(added[e.group], e.key, e.value)
                 [] e.type = "Delete" -> delete(added[e.group], e.key)
    IN  [states |-> [added EXCEPT ![e.group] = out.state], result |-> out.result]

\* the replay loop of RaftLogStore::open: the first error ends it
RECURSIVE open_replay(_, _)
open_replay(map, records) ==
    IF records = <<>> THEN [states |-> map, result |-> Ok]
    ELSE LET one == open_apply(map, Head(records))
         IN  IF one.result.kind # "Ok" THEN [states |-> one.states, result |-> one.result]
             ELSE open_replay(one.states, Tail(records))

\* the result and the effect of a MemStates call made by the store
OnStates(group, out_of(_)) ==
    IF group \notin DOMAIN states
    THEN [states |-> states, result |-> GroupNotExists(group)]
    ELSE LET out == out_of(states[group])
         IN  [states |-> [states EXCEPT ![group] = out.state], result |-> out.result]

\* the history of a store call; only a reopening keeps the states before it
StoreCall(op, group, args, result) ==
    [op |-> op, group |-> group, args |-> args,
     pre |-> IF op = "open" THEN states ELSE EmptyMap, result |-> result]

\* a logged operation: the entry is pushed first, then MemStates is called
Logged(op, group, args, pushed, done) ==
    /\ opened
    /\ Len(log) < MaxLog
    /\ log_push(pushed)
    /\ states' = done.states
    /\ last' = StoreCall(op, group, args, done.result)
    /\ clean' = (clean /\ done.result.kind = "Ok")
    /\ UNCHANGED <<block_cache, opened, LsmVars>>

StoreAddGroup(group) ==
    /\ opened
    /\ IF group \in DOMAIN states
       THEN /\ states' = states
            /\ last' = StoreCall("add_group", group, NoArgs, GroupAlreadyExists(group))
       ELSE /\ states' = Insert(states, group, NewMemState)
            /\ last' = StoreCall("add_group", group, NoArgs, Ok)
    /\ UNCHANGED <<log, active, block_cache, opened, clean, LsmVars>>

StoreAppend(group, term, first_index, n) ==
    /\ LET batch == RaftLogBatch(group, term, first_index, n)
           at == log_push_location
           indices == append_indices(batch, at.file_id, at.write_offset)
           do(state) == append(state, first_index, indices)
       IN  Logged("append", group, [batch |-> batch], batch, OnStates(group, do))

StoreCompact(group, index) ==
    LET do(state) == compact(state, index)
    IN  Logged("compact", group, [index |-> index], CompactEntry(group, index),
               OnStates(group, do))

StorePut(group, key, value) ==
    LET do(state) == put(state, key, value)
    IN  Logged("put", group, [key |-> key, value |-> value],
               PutEntry(group, key, value), OnStates(group, do))

StoreDelete(group, key) ==
    LET do(state) == delete(state, key)
    IN  Logged("delete", group, [key |-> key], DeleteEntry(group, key),
               OnStates(group, do))

StoreEntries(group, index, max_len) ==
    /\ opened
    /\ group \in DOMAIN states
    /\ LET found == entries(states[group], index, max_len)
           read == read_entries(block_cache, found.indices, <<>>)
           args == [index |-> index, max_len |-> max_len]
       IN  IF found.result.kind # "Ok"
           THEN /\ block_cache' = block_cache
                /\ last' = [StoreCall("entries", group, args, found.result)
                               EXCEPT !.args = [index |-> index, max_len |-> max_len,
                                                indices |-> <<>>, entries |-> <<>>]]
           ELSE /\ block_cache' = read.cache
                /\ last' = [StoreCall("entries", group, args, read.result)
                               EXCEPT !.args = [index |-> index, max_len |-> max_len,
                                                indices |-> found.indices,
                                                entries |-> read.entries]]
    /\ UNCHANGED <<states, log, active, opened, clean, LsmVars>>

\* drop the store and open it again on the same directory: the log is
\* replayed into fresh states, the block cache is new, the active file is
\* rotated
StoreReopen ==
    /\ active.file_id < MaxFileId
    /\ LET replayed == open_replay(EmptyMap, log)
       IN  /\ opened' = (replayed.result.kind = "Ok")
           /\ states' = IF replayed.result.kind = "Ok" THEN replayed.states ELSE EmptyMap
           /\ last' = StoreCall("open", 0, NoArgs, replayed.result)
    /\ block_cache' = EmptyMap
    /\ active' = [file_id |-> active.file_id + 1, len |-> 0]
    /\ UNCHANGED <<log, clean, LsmVars>>

InitStore ==
    /\ states = EmptyMap
    /\ last = [op |-> "open", group |-> 0, args |-> NoArgs, pre |-> EmptyMap,
               result |-> Ok]
    /\ log = <<>>
    /\ active = [file_id |-> 1, len |-> 0]
    /\ block_cache = EmptyMap
    /\ opened = TRUE
    /\ clean = TRUE
    /\ LsmIdle

\* the calls that write, and the reopening
NextStore ==
    \/ \E group \in StoreGroups : StoreAddGroup(group)
    \/ \E group \in StoreGroups, term \in Terms, first_index \in StoreFirstIndexes,
          n \in StoreBatchLens : StoreAppend(group, term, first_index, n)
    \/ \E group \in StoreGroups, index \in StoreIndexes : StoreCompact(group, index)
    \/ \E group \in StoreGroups, key \in Keys, value \in Values :
            StorePut(group, key, value)
    \/ \E group \in StoreGroups, key \in Keys : StoreDelete(group, key)
    \/ StoreReopen

SpecStore == InitStore /\ [][NextStore]_vars

\* the same store, read through entries as well
NextStoreRead ==
    \/ \E group \in StoreGroups : StoreAddGroup(group)
    \/ \E group \in StoreGroups, term \in Terms, first_index \in StoreFirstIndexes,
          n \in StoreBatchLens : StoreAppend(group, term, first_index, n)
    \/ \E group \in StoreGroups, index \in StoreIndexes : StoreCompact(group, index)
    \/ \E group \in StoreGroups, index \in StoreIndexes, max_len \in StoreBatchLens :
            StoreEntries(group, index, max_len)
    \/ StoreReopen

SpecStoreRead == InitStore /\ [][NextStoreRead]_vars

(***************************************************************************)
(* The reads of MemStates, on the state of the group.  An Option is a      *)
(* sequence of no or one value.                                            *)
(***************************************************************************)
None == <<>>
Some(v) == <<v>>

read_term(state, index) ==
    IF index < state.first_index \/ index >= next_index_of(state)
    THEN None
    ELSE Some(state.indices[index - state.first_index + 1].term)

read_ctx(state, index) ==
    IF index < state.first_index \/ index >= next_index_of(state)
    THEN None
    ELSE Some(state.indices[index - state.first_index + 1].ctx)

\* the first index a reader starts from: max(first_index, mask_index) unless
\* the reader unmasks
first_index_unmasked(state, unmask) ==
    IF unmask THEN state.first_index
    ELSE IF state.first_index > state.mask_index THEN state.first_index
    ELSE state.mask_index

\* MemStates::first_index: Ok(Ok(index)), or Ok(Err(index)) on a group with
\* nothing to read
read_first_index(state, unmask) ==
    LET index == first_index_unmasked(state, unmask)
    IN  [inner |-> IF next_index_of(state) <= index THEN "Err" ELSE "Ok",
         index |-> index]

\* MemStates::next_index
read_next_index(state, unmask) ==
    LET index == first_index_unmasked(state, unmask)
    IN  [inner |-> IF next_index_of(state) <= index THEN "Err" ELSE "Ok",
         index |-> next_index_of(state)]

\* MemStates::may_entries.  index + max_len is a u64 addition: when it
\* overflows, a build with overflow checks panics and a build without them
\* goes on with the wrapped sum.
may_entries(state, index, max_len, unmask, overflow_checks) ==
    LET from == first_index_unmasked(state, unmask)
        start_index == IF index > from THEN index ELSE from
        sum == wrapping_add(index, max_len)
        end_index == IF sum < next_index_of(state) THEN sum ELSE next_index_of(state)
        start == start_index - state.first_index
        end == start + (end_index - start_index)
    IN  IF overflows(index, max_len) /\ overflow_checks
        THEN [result |-> Panic, start_index |-> 0, indices |-> <<>>]
        ELSE IF start_index >= end_index
        THEN [result |-> Ok, start_index |-> 0, indices |-> <<>>]
        ELSE [result |-> Ok, start_index |-> start_index,
              indices |-> SubSeq(state.indices, start + 1, end)]

\* MemStates::get
get(state, key) == IF key \in DOMAIN state.kvs THEN Some(state.kvs[key]) ELSE None

(***************************************************************************)
(* The whole interface of MemStates on one group: the writes and the       *)
(* reads.  A read leaves the states as they are; `last.args` keeps what it *)
(* was given and what it returned.                                         *)
(***************************************************************************)
\* a read of a group: GroupNotExists, or the value the read returns
OnRead(op, group, args, result) ==
    /\ \/ NotExists(op, group, args)
       \/ /\ Usable(group)
          /\ states' = states
          /\ last' = Call(op, group, args, result)
    /\ UNCHANGED <<StoreVars, LsmVars>>

MemTerm(group, index) ==
    OnRead("term", group,
           [index |-> index,
            value |-> IF group \in DOMAIN states
                      THEN read_term(states[group], index) ELSE None],
           Ok)

MemCtx(group, index) ==
    OnRead("ctx", group,
           [index |-> index,
            value |-> IF group \in DOMAIN states
                      THEN read_ctx(states[group], index) ELSE None],
           Ok)

MemFirstIndex(group, unmask) ==
    OnRead("first_index", group,
           [unmask |-> unmask,
            value |-> IF group \in DOMAIN states
                      THEN read_first_index(states[group], unmask) ELSE None],
           Ok)

MemNextIndex(group, unmask) ==
    OnRead("next_index", group,
           [unmask |-> unmask,
            value |-> IF group \in DOMAIN states
                      THEN read_next_index(states[group], unmask) ELSE None],
           Ok)

MemMayEntries(group, index, max_len, unmask, overflow_checks) ==
    LET read == IF group \in DOMAIN states
                THEN may_entries(states[group], index, max_len, unmask,
                                 overflow_checks)
                ELSE [result |-> Ok, start_index |-> 0, indices |-> <<>>]
    IN  OnRead("may_entries", group,
               [index |-> index, max_len |-> max_len, unmask |-> unmask,
                start_index |-> read.start_index, indices |-> read.indices],
               read.result)

MemEntries(group, index, max_len) ==
    LET read == IF group \in DOMAIN states
                THEN entries(states[group], index, max_len)
                ELSE [result |-> Ok, indices |-> <<>>]
    IN  OnRead("entries", group,
               [index |-> index, max_len |-> max_len, indices |-> read.indices],
               read.result)

MemGet(group, key) ==
    OnRead("get", group,
           [key |-> key,
            value |-> IF group \in DOMAIN states
                      THEN get(states[group], key) ELSE None],
           Ok)

MemPut(group, key, value) ==
    /\ \/ NotExists("put", group, [key |-> key, value |-> value])
       \/ /\ Usable(group)
          /\ OnGroup("put", group, [key |-> key, value |-> value],
                     put(states[group], key, value))
    /\ UNCHANGED <<StoreVars, LsmVars>>

MemDelete(group, key) ==
    /\ \/ NotExists("delete", group, [key |-> key])
       \/ /\ Usable(group)
          /\ OnGroup("delete", group, [key |-> key], delete(states[group], key))
    /\ UNCHANGED <<StoreVars, LsmVars>>

\* the max_len a reader passes: short ranges, and usize::MAX for "all"
MaxLens == (0..MaxBatch) \cup {USIZE_MAX}

\* the batches of the read specification: the ctx of an entry tells its term
ReadBatches ==
    UNION {[1..n -> {EntryIndex(t, <<t>>, 1, 0, 0, 0, 0) : t \in Terms}] :
              n \in 1..MaxBatch}

NextRead ==
    \/ \E group \in Groups : MemAddGroup(group)
    \/ \E group \in Groups : MemRemoveGroup(group)
    \/ \E group \in Groups, first_index \in RaftIndexes, indices \in ReadBatches :
            MemAppend(group, first_index, indices)
    \/ \E group \in Groups, index \in 0..(MaxIndex + 1) : MemTruncate(group, index)
    \/ \E group \in Groups, index \in 0..(MaxIndex + 1) : MemCompact(group, index)
    \/ \E group \in Groups, index \in 0..(MaxIndex + 1) : MemMask(group, index)
    \/ \E group \in Groups, key \in Keys, value \in Values : MemPut(group, key, value)
    \/ \E group \in Groups, key \in Keys : MemDelete(group, key)
    \/ \E group \in Groups, index \in 0..(MaxIndex + 1) : MemTerm(group, index)
    \/ \E group \in Groups, index \in 0..(MaxIndex + 1) : MemCtx(group, index)
    \/ \E group \in Groups, unmask \in BOOLEAN : MemFirstIndex(group, unmask)
    \/ \E group \in Groups, unmask \in BOOLEAN : MemNextIndex(group, unmask)
    \/ \E group \in Groups, index \in 0..(MaxIndex + 1), max_len \in MaxLens,
          unmask \in BOOLEAN, overflow_checks \in BOOLEAN :
            MemMayEntries(group, index, max_len, unmask, overflow_checks)
    \/ \E group \in Groups, index \in 0..(MaxIndex + 1), max_len \in MaxLens :
            MemEntries(group, index, max_len)
    \/ \E group \in Groups, key \in Keys : MemGet(group, key)

SpecRead == Init /\ [][NextRead]_vars

(***************************************************************************)
(* The writes of MemStates on two groups.                                  *)
(***************************************************************************)
\* one entry per batch is enough to tell the groups apart
GroupBatches == {<<EntryIndex(1, <<>>, 1, 0, 0, 0, 0)>>}

NextGroups ==
    \/ \E group \in StoreGroups : MemAddGroup(group)
    \/ \E group \in StoreGroups : MemRemoveGroup(group)
    \/ \E group \in StoreGroups, first_index \in RaftIndexes, indices \in GroupBatches :
            MemAppend(group, first_index, indices)
    \/ \E group \in StoreGroups, index \in 0..(MaxIndex + 1) : MemTruncate(group, index)
    \/ \E group \in StoreGroups, index \in 0..(MaxIndex + 1) : MemCompact(group, index)
    \/ \E group \in StoreGroups, index \in 0..(MaxIndex + 1) : MemMask(group, index)
    \/ \E group \in StoreGroups, key \in Keys, value \in Values :
            MemPut(group, key, value)
    \/ \E group \in StoreGroups, key \in Keys : MemDelete(group, key)

SpecGroups == Init /\ [][NextGroups]_vars

(***************************************************************************)
(* The claims.  `last` holds the call just made: Pre and Post are the      *)
(* state of its group before and after it.                                 *)
(***************************************************************************)
OnExisting(op) == last.op = op /\ last.group \in DOMAIN last.pre
Pre == last.pre[last.group]
Post == states[last.group]
Stored(state, i) == i >= state.first_index /\ i < next_index_of(state)
At(state, i) == state.indices[i - state.first_index + 1]
Max(a, b) == IF a > b THEN a ELSE b
BatchEnd == last.args.first_index + Len(last.args.indices)
Incoming(i) == last.args.indices[i - last.args.first_index + 1]
Covered(i) == i >= last.args.first_index /\ i < BatchEnd

\* C3: on a group whose next_index is not 0, append with first_index >
\* next_index returns RaftLogGap{start = next_index, end = first_index} and
\* leaves the whole state of the group as it was.
C3_AppendGapIsRejected ==
    (OnExisting("append") /\ next_index_of(Pre) # 0
        /\ last.args.first_index > next_index_of(Pre))
    => /\ last.result = RaftLogGap(next_index_of(Pre), last.args.first_index)
       /\ Post = Pre

C3_Witness ==
    /\ OnExisting("append")
    /\ Len(Pre.indices) > 0
    /\ last.args.first_index > next_index_of(Pre)
    /\ last.result.kind = "RaftLogGap"

\* C4: after a successful append, every raft index that was stored before and
\* is covered by the batch holds the incoming EntryIndex if its term is >= the
\* stored term, and the stored one otherwise.
C4_OverlapKeepsHigherTerm ==
    (OnExisting("append") /\ last.result.kind = "Ok")
    => \A i \in RaftIndexes :
          (Stored(Pre, i) /\ Covered(i))
          => /\ Stored(Post, i)
             /\ At(Post, i) = IF Incoming(i).term >= At(Pre, i).term
                              THEN Incoming(i) ELSE At(Pre, i)

C4_Witness ==
    /\ OnExisting("append")
    /\ last.result.kind = "Ok"
    /\ \E i \in RaftIndexes :
          /\ Stored(Pre, i) /\ Covered(i)
          /\ Incoming(i).term < At(Pre, i).term
    /\ \E i \in RaftIndexes :
          /\ Stored(Pre, i) /\ Covered(i)
          /\ Incoming(i).term = At(Pre, i).term /\ Incoming(i) # At(Pre, i)

\* C5: after a successful append(g, f, batch) on a group storing [first, next):
\* next_index is max(next, f + len(batch)); every raft index of the batch at or
\* past the old next holds the batch's entry; first_index is unchanged when
\* next # 0; an empty group (next = 0) accepts any f and takes it as first_index.
C5_AppendExtends ==
    OnExisting("append")
    => /\ next_index_of(Pre) = 0 => last.result.kind = "Ok"
       /\ last.result.kind = "Ok"
          => /\ next_index_of(Post) = Max(next_index_of(Pre), BatchEnd)
             /\ \A i \in RaftIndexes :
                   (Covered(i) /\ i >= next_index_of(Pre))
                   => Stored(Post, i) /\ At(Post, i) = Incoming(i)
             /\ next_index_of(Pre) # 0 => Post.first_index = Pre.first_index
             /\ next_index_of(Pre) = 0 => Post.first_index = last.args.first_index

C5_Witness ==
    /\ OnExisting("append")
    /\ last.result.kind = "Ok"
    /\ Pre.first_index > 0
    /\ last.args.first_index < next_index_of(Pre)
    /\ next_index_of(Pre) < BatchEnd

\* C6: append(g, f, batch) with f < first_index returns Ok for every batch
\* length, and leaves the group unchanged when the whole batch lies below
\* first_index (f + len(batch) <= first_index).
C6_OutdatedBatchIsOk ==
    (OnExisting("append") /\ last.args.first_index < Pre.first_index)
    => /\ last.result.kind = "Ok"
       /\ BatchEnd <= Pre.first_index => Post = Pre

\* C7: when append(g, f, batch) returns Ok, the same append made again returns
\* Ok and leaves first_index and indices as the first call left them.
C7_AppendIdempotent ==
    (OnExisting("append") /\ last.result.kind = "Ok")
    => LET again == append(Post, last.args.first_index, last.args.indices)
       IN  /\ again.result.kind = "Ok"
           /\ again.state.first_index = Post.first_index
           /\ again.state.indices = Post.indices

C7_Witness ==
    /\ OnExisting("append")
    /\ last.result.kind = "Ok"
    /\ Len(Pre.indices) > 0
    /\ Post.indices # Pre.indices
    /\ last.args.first_index < next_index_of(Pre)

\* C8: compact(g, index) with first_index < index <= next_index sets
\* first_index to index, keeps next_index and the EntryIndex of every raft
\* index in [index, next_index); with index <= first_index it changes nothing.
C8_CompactDropsPrefix ==
    OnExisting("compact")
    => /\ last.result.kind = "Ok"
       /\ (Pre.first_index < last.args.index /\ last.args.index <= next_index_of(Pre))
          => /\ Post.first_index = last.args.index
             /\ next_index_of(Post) = next_index_of(Pre)
             /\ \A i \in RaftIndexes :
                   (i >= last.args.index /\ i < next_index_of(Pre))
                   => At(Post, i) = At(Pre, i)
             /\ Post.mask_index = Pre.mask_index /\ Post.kvs = Pre.kvs
       /\ last.args.index <= Pre.first_index => Post = Pre

C8_Witness ==
    /\ OnExisting("compact")
    /\ Pre.first_index < last.args.index
    /\ last.args.index < next_index_of(Pre)
    /\ Len(Post.indices) > 0

\* C9: compact is idempotent for every index (inside the range, at next_index,
\* past the end): a second compact(g, i) changes nothing, and neither does a
\* compact(g, j) with j <= i.
C9_CompactIdempotent ==
    OnExisting("compact")
    => \A j \in 0..last.args.index :
          /\ compact(Post, j).result.kind = "Ok"
          /\ compact(Post, j).state = Post

C9_Witness ==
    /\ OnExisting("compact")
    /\ Len(Pre.indices) > 1
    /\ Pre.first_index < last.args.index
    /\ last.args.index < next_index_of(Pre)

\* C10, as claimed: first_index after compact(g, index) is >= first_index
\* before it, for every index.
C10_CompactNeverLowersFirstIndex ==
    OnExisting("compact") => Post.first_index >= Pre.first_index

\* C10, amended: compact(g, index) with index <= next_index leaves first_index
\* at max(first_index, index), never lower; with index > next_index it drops
\* every index and sets first_index to 0.
C10_CompactAdvancesUpToNextIndex ==
    OnExisting("compact")
    => IF last.args.index <= next_index_of(Pre)
       THEN Post.first_index = Max(Pre.first_index, last.args.index)
       ELSE Post.first_index = 0 /\ Post.indices = <<>>

C10_Witness ==
    /\ OnExisting("compact")
    /\ last.args.index > next_index_of(Pre)
    /\ Pre.first_index > 0
    /\ Post.first_index = 0

(***************************************************************************)
(* The claims on RaftLogStore.                                             *)
(***************************************************************************)
\* the groups some entry of the log names
LoggedGroups == {log[i].entry.group : i \in 1..Len(log)}

\* C1: after appends that returned Ok, entries(group, index, max_len) returns
\* for each raft index of the range the payload that was appended for that
\* group, term and index (the block the cache hands out for an EntryIndex is
\* the data segment of the batch the EntryIndex was recorded from).
C1_EntriesReturnAppendedPayloads ==
    (clean /\ last.op = "entries" /\ Len(last.args.indices) > 0)
    => /\ last.result.kind = "Ok"
       /\ last.args.entries =
             [k \in 1..Len(last.args.indices) |->
                 data(last.group, last.args.indices[k].term, last.args.index + k - 1)]

\* C2, as claimed: after successful append/compact/put/delete calls, reopening
\* rebuilds for every group of the live store the state the live store held.
C2_ReopenRebuildsEveryGroup ==
    (clean /\ last.op = "open")
    => /\ last.result.kind = "Ok"
       /\ \A g \in DOMAIN last.pre : g \in DOMAIN states /\ states[g] = last.pre[g]

\* C2, amended: after successful append/compact/put/delete calls, reopening
\* rebuilds, for every group that has an entry in the log, the first_index, the
\* EntryIndex list and the kv map the live store held; a group that was only
\* added (add_group is not logged) is not registered after the reopening.
C2_ReopenRebuildsLoggedGroups ==
    (clean /\ last.op = "open")
    => /\ last.result.kind = "Ok"
       /\ opened
       /\ DOMAIN states = LoggedGroups
       /\ \A g \in LoggedGroups : g \in DOMAIN last.pre /\ states[g] = last.pre[g]

C2_Witness ==
    /\ clean
    /\ last.op = "open"
    /\ \E g \in DOMAIN states :
          /\ states[g].first_index > 0
          /\ Len(states[g].indices) > 0
          /\ states[g] = last.pre[g]

(***************************************************************************)
(* The claims on truncate and on the terms of the retained indices.        *)
(***************************************************************************)
Min(a, b) == IF a < b THEN a ELSE b

\* C11: truncate(g, index) with index >= first_index returns Ok and keeps
\* exactly the entries of raft index [first_index, min(index, next_index)),
\* each as it was, with first_index unchanged; with index >= next_index it
\* changes nothing.
C11_TruncateKeepsPrefix ==
    (OnExisting("truncate") /\ last.args.index >= Pre.first_index)
    => /\ last.result = Ok
       /\ Post.first_index = Pre.first_index
       /\ next_index_of(Post) = Min(last.args.index, next_index_of(Pre))
       /\ \A i \in RaftIndexes : Stored(Post, i) => At(Post, i) = At(Pre, i)
       /\ last.args.index >= next_index_of(Pre) => Post = Pre

C11_Witness ==
    /\ OnExisting("truncate")
    /\ last.args.index > Pre.first_index
    /\ last.args.index < next_index_of(Pre)
    /\ Len(Post.indices) = 1
    /\ Len(Pre.indices) = 2

\* C12: truncate(g, index) with index < first_index returns RaftLogGap and
\* leaves the state of the group as it was.
C12_TruncateBehindIsRejected ==
    (OnExisting("truncate") /\ last.args.index < Pre.first_index)
    => /\ last.result = RaftLogGap(last.args.index, Pre.first_index)
       /\ Post = Pre

C12_Witness ==
    /\ OnExisting("truncate")
    /\ last.args.index < Pre.first_index
    /\ Len(Pre.indices) > 0
    /\ last.result.kind = "RaftLogGap"

\* the terms of a list of indices never go down
TermsNonDecreasing(indices) ==
    \A i \in 1..(Len(indices) - 1) : indices[i].term <= indices[i + 1].term

\* C19: the terms of the retained indices are non-decreasing in raft-index
\* order: an append of a batch with non-decreasing terms to a group whose
\* terms are non-decreasing leaves them non-decreasing.
C19_TermsStayNonDecreasing ==
    (OnExisting("append") /\ last.result.kind = "Ok"
        /\ TermsNonDecreasing(Pre.indices)
        /\ TermsNonDecreasing(last.args.indices))
    => TermsNonDecreasing(Post.indices)

(***************************************************************************)
(* The claims on the reads, on mask and on the groups.                     *)
(***************************************************************************)
\* how many indices a range read of max_len from index may return
RangeLen(state, index, max_len) ==
    Min(max_len, next_index_of(state) - index)

\* C13: entries(g, index, max_len) returns RaftLogGap when index < first_index
\* or index >= next_index, and Ok otherwise.
C13_EntriesGapOrOk ==
    OnExisting("entries")
    => IF Stored(Pre, last.args.index)
       THEN last.result = Ok
       ELSE last.result.kind = "RaftLogGap"

\* C14: for first_index <= index < next_index and every max_len up to
\* usize::MAX, entries(g, index, max_len) returns the EntryIndex of the raft
\* indices [index, min(index + max_len, next_index)), in order.
C14_EntriesReturnRange ==
    (OnExisting("entries") /\ Stored(Pre, last.args.index))
    => /\ last.result = Ok
       /\ last.args.indices =
             [k \in 1..RangeLen(Pre, last.args.index, last.args.max_len) |->
                 At(Pre, last.args.index + k - 1)]

\* C15: mask(g, index) changes mask_index only, for every index: first_index
\* and the stored indices are as they were.
C15_MaskKeepsEntries ==
    OnExisting("mask")
    => /\ last.result = Ok
       /\ Post.first_index = Pre.first_index
       /\ Post.indices = Pre.indices
       /\ Post.kvs = Pre.kvs

\* C16: an entry with a raft index below mask_index is never returned by a
\* read that was not passed unmask = true: term, ctx and entries (which take
\* no flag), first_index and may_entries with unmask = false.
C16_MaskedEntriesAreHidden ==
    (last.op \in {"term", "ctx", "entries", "first_index", "may_entries"}
        /\ last.group \in DOMAIN last.pre /\ last.result = Ok)
    => CASE last.op \in {"term", "ctx"} ->
                last.args.value # None => last.args.index >= Pre.mask_index
         [] last.op = "entries" ->
                last.args.indices # <<>> => last.args.index >= Pre.mask_index
         [] last.op = "first_index" ->
                (~last.args.unmask /\ last.args.value.inner = "Ok")
                => last.args.value.index >= Pre.mask_index
         [] last.op = "may_entries" ->
                (~last.args.unmask /\ last.args.indices # <<>>)
                => last.args.start_index >= Pre.mask_index

\* C17: an operation on group g, successful or failing, leaves every other
\* group as it was.
C17_OtherGroupsUnchanged ==
    \A g \in DOMAIN last.pre :
        g # last.group => g \in DOMAIN states /\ states[g] = last.pre[g]

C17_Witness ==
    /\ last.op \in {"append", "truncate", "compact", "mask", "put", "delete",
                    "remove_group"}
    /\ last.group \in DOMAIN last.pre
    /\ Post # Pre
    /\ \E g \in DOMAIN last.pre :
          /\ g # last.group
          /\ Len(states[g].indices) > 0
          /\ states[g].mask_index > 0
          /\ DOMAIN states[g].kvs # {}

PerGroupOps ==
    {"term", "ctx", "first_index", "next_index", "append", "truncate", "compact",
     "mask", "may_entries", "entries", "put", "delete", "get", "remove_group"}

\* C18: a per-group operation on a group that was never added returns
\* GroupNotExists, add_group on a group already added returns
\* GroupAlreadyExists, and neither changes the states.
C18_UnknownAndDuplicateGroups ==
    /\ (last.op \in PerGroupOps /\ last.group \notin DOMAIN last.pre)
       => last.result = GroupNotExists(last.group) /\ states = last.pre
    /\ (last.op = "add_group" /\ last.group \in DOMAIN last.pre)
       => last.result = GroupAlreadyExists(last.group) /\ states = last.pre

C18_Witness ==
    /\ last.op = "may_entries"
    /\ last.group \notin DOMAIN last.pre
    /\ last.result.kind = "GroupNotExists"
    /\ states = EmptyMap

(***************************************************************************)
(* Full keys (key.rs): the user key, then the timestamp, bit-inverted, as  *)
(* 8 little-endian bytes.  Byte strings are sequences over 0..255.         *)
(***************************************************************************)
MaxKeyLen == 2    \* bytes of a user key

KeyBytes == {0, 107}
UserKeys == UNION {[1..n -> KeyBytes] : n \in 0..MaxKeyLen}
Timestamps == {0, 1, 255, 256}

\* byte i (from 0) of the little-endian u64 x, for x < 2^32
le_byte(x, i) == IF i < 4 THEN (x \div (256 ^ i)) % 256 ELSE 0

\* put_u64_le(!timestamp): inverting the u64 inverts each of its bytes
put_u64_le_not(timestamp) == [i \in 1..8 |-> 255 - le_byte(timestamp, i - 1)]

full_key(user_key, timestamp) == user_key \o put_u64_le_not(timestamp)

\* the order of byte slices (Ord for [u8]): lexicographic, a proper prefix
\* first
bytes_less(a, b) ==
    \E k \in 1..(Len(b)) :
        /\ \A j \in 1..(k - 1) : j <= Len(a) /\ a[j] = b[j]
        /\ k > Len(a) \/ a[k] < b[k]

KeyInputs ==
    [user_key1 : UserKeys, timestamp1 : Timestamps,
     user_key2 : UserKeys, timestamp2 : Timestamps]

\* two full keys are built and compared
KeyCompare ==
    /\ last.op = "input"
    /\ LET key1 == full_key(last.args.user_key1, last.args.timestamp1)
           key2 == full_key(last.args.user_key2, last.args.timestamp2)
       IN  last' = [last EXCEPT !.op = "full_key",
                                !.pre = <<key1, key2>>,
                                !.result = IF bytes_less(key1, key2)
                                           THEN "Less" ELSE "NotLess"]
    /\ UNCHANGED <<states, log, active, block_cache, opened, clean, LsmVars>>

InitKey ==
    /\ states = EmptyMap
    /\ \E input \in KeyInputs :
          last = [op |-> "input", group |-> 0, args |-> input, pre |-> EmptyMap,
                  result |-> Ok]
    /\ log = <<>>
    /\ active = [file_id |-> 1, len |-> 0]
    /\ block_cache = EmptyMap
    /\ opened = FALSE
    /\ clean = TRUE
    /\ LsmIdle

NextKey == KeyCompare

SpecKey == InitKey /\ [][NextKey]_vars

\* C20: full_key(uk1, ts1) < full_key(uk2, ts2) in byte order iff uk1 < uk2,
\* or uk1 = uk2 and ts1 > ts2.
C20_FullKeyOrder ==
    last.op = "full_key"
    => (last.result = "Less")
       <=> \/ bytes_less(last.args.user_key1, last.args.user_key2)
           \/ /\ last.args.user_key1 = last.args.user_key2
              /\ last.args.timestamp1 > last.args.timestamp2

(***************************************************************************)
(* LSM tree: the SSTable meta codec (sstable.rs).                          *)
(*                                                                         *)
(* SpecMeta : one SstableMeta is encoded and the bytes are decoded.        *)
(* A usize is kept as its 8 little-endian bytes (64-bit target), a buffer  *)
(* as a sequence of bytes.                                                 *)
(***************************************************************************)
MaxBlocks == 3    \* an SSTable (an SstableMeta) holds 0..MaxBlocks blocks (block metas)

\* the raft log store's variables, untouched by the LSM tree
RaftVars == <<states, log, active, block_cache, opened, clean>>

\* no raft log store exists
RaftIdle ==
    /\ states = EmptyMap
    /\ log = <<>>
    /\ active = [file_id |-> 1, len |-> 0]
    /\ block_cache = EmptyMap
    /\ opened = FALSE
    /\ clean = TRUE

\* a usize below 2^31 as its 8 little-endian bytes
usize_le(n) == [i \in 1..8 |-> le_byte(n, i - 1)]

\* `x as u32` of a usize, then put_u32_le: the low 4 bytes
put_u32_le_as_u32(x) == SubSeq(x, 1, 4)

\* put_u32_le of a length (`len() as u32`, below 2^31 here)
put_u32_le(n) == [i \in 1..4 |-> le_byte(n, i - 1)]

\* get_u32_le() as usize: the 4 bytes read, widened with zero bytes
get_u32_le_as_usize(buf) == SubSeq(buf, 1, 4) \o <<0, 0, 0, 0>>

\* get_u32_le() as usize of a length field (below 2^31 here), as a number
get_len(buf) == buf[1] + 256 * buf[2] + 65536 * buf[3] + 16777216 * (buf[4] % 128)

\* Buf::advance
advance(buf, n) == SubSeq(buf, n + 1, Len(buf))

BlockMeta(offset, len, first_key, last_key) ==
    [offset |-> offset, len |-> len, first_key |-> first_key, last_key |-> last_key]

BlockMeta_encode(meta) ==
    put_u32_le_as_u32(meta.offset)
    \o put_u32_le_as_u32(meta.len)
    \o put_u32_le(Len(meta.first_key))
    \o put_u32_le(Len(meta.last_key))
    \o meta.first_key
    \o meta.last_key

\* the decoded meta and the rest of the buffer
BlockMeta_decode(buf) ==
    LET offset == get_u32_le_as_usize(buf)
        len == get_u32_le_as_usize(advance(buf, 4))
        first_key_len == get_len(advance(buf, 8))
        last_key_len == get_len(advance(buf, 12))
        keys == SubSeq(buf, 17, 16 + first_key_len + last_key_len)
    IN  IF Len(keys) # first_key_len + last_key_len
        THEN [meta |-> Panic, buf |-> <<>>]
        ELSE [meta |-> BlockMeta(offset, len,
                                 SubSeq(keys, 1, first_key_len),
                                 SubSeq(keys, first_key_len + 1, Len(keys))),
              buf |-> advance(buf, 16 + first_key_len + last_key_len)]

\* a sum over the bytes buf[lo..hi], each weighted by its position
RECURSIVE byte_sum(_, _, _)
byte_sum(buf, lo, hi) ==
    IF lo > hi THEN 0
    ELSE IF lo = hi THEN (buf[lo] * lo) % 65536
    ELSE LET mid == (lo + hi) \div 2
         IN  (byte_sum(buf, lo, mid) + byte_sum(buf, mid + 1, hi)) % 65536

\* utils::crc32sum: a 32-bit checksum of the bytes
crc32sum(buf) == put_u32_le(byte_sum(buf, 1, Len(buf)))

\* utils::crc32check: asserts that the bytes have the checksum
crc32check(buf, checksum) == crc32sum(buf) = checksum

SstableMeta(block_metas, bloom_filter) ==
    [block_metas |-> block_metas, bloom_filter |-> bloom_filter]

RECURSIVE encode_block_metas(_)
encode_block_metas(block_metas) ==
    IF block_metas = <<>> THEN <<>>
    ELSE BlockMeta_encode(Head(block_metas)) \o encode_block_metas(Tail(block_metas))

SstableMeta_encode(meta) ==
    LET buf == put_u32_le(Len(meta.block_metas))
               \o encode_block_metas(meta.block_metas)
               \o put_u32_le(Len(meta.bloom_filter))
               \o meta.bloom_filter
    IN  crc32sum(buf) \o buf

\* the loop of SstableMeta::decode: block_metas_len block metas, then the rest
RECURSIVE decode_block_metas(_, _, _)
decode_block_metas(buf, block_metas_len, block_metas) ==
    IF block_metas_len = 0 THEN [panic |-> FALSE, block_metas |-> block_metas, buf |-> buf]
    ELSE LET one == BlockMeta_decode(buf)
         IN  IF one.meta = Panic
             THEN [panic |-> TRUE, block_metas |-> <<>>, buf |-> <<>>]
             ELSE decode_block_metas(one.buf, block_metas_len - 1,
                                     Append(block_metas, one.meta))

SstableMeta_decode(bytes) ==
    LET checksum == SubSeq(bytes, 1, 4)
        buf == advance(bytes, 4)
    IN  IF ~crc32check(buf, checksum) THEN Panic
        ELSE LET metas == decode_block_metas(advance(buf, 4), get_len(buf), <<>>)
             IN  IF metas.panic THEN Panic
                 ELSE LET bloom_filter_len == get_len(metas.buf)
                      IN  SstableMeta(metas.block_metas,
                                      SubSeq(metas.buf, 5, 4 + bloom_filter_len))

\* offsets and lengths of blocks: 0, one block capacity of the tests, 4 GiB
MetaSizes == {usize_le(0), usize_le(32), <<0, 0, 0, 0, 1, 0, 0, 0>>}
MetaKeys == {<<>>, full_key(<<107>>, 1)}
BlockMetas ==
    {BlockMeta(offset, usize_le(32), first_key, full_key(<<107>>, 1)) :
        offset \in MetaSizes, first_key \in MetaKeys}
    \cup {BlockMeta(usize_le(0), len, <<>>, <<>>) : len \in MetaSizes}
BloomFilters == {<<>>, <<7>>}

RECURSIVE SeqsUpTo(_, _)
SeqsUpTo(S, n) ==
    IF n = 0 THEN {<<>>}
    ELSE SeqsUpTo(S, n - 1)
         \cup {Append(s, x) : s \in {t \in SeqsUpTo(S, n - 1) : Len(t) = n - 1}, x \in S}

SstableMetas ==
    {SstableMeta(block_metas, bloom_filter) :
        block_metas \in SeqsUpTo(BlockMetas, MaxBlocks), bloom_filter \in BloomFilters}

\* the meta is encoded and the bytes are decoded
MetaEncodeDecode ==
    /\ last.op = "meta"
    /\ LET buf == SstableMeta_encode(last.args)
       IN  last' = [last EXCEPT !.op = "decode", !.pre = buf,
                                !.result = SstableMeta_decode(buf)]
    /\ UNCHANGED <<RaftVars, LsmVars>>

InitMeta ==
    /\ RaftIdle
    /\ LsmIdle
    /\ \E meta \in SstableMetas :
          last = [op |-> "meta", group |-> 0, args |-> meta, pre |-> EmptyMap,
                  result |-> Ok]

NextMeta == MetaEncodeDecode

SpecMeta == InitMeta /\ [][NextMeta]_vars

\* C21: decode(encode(m)) gives back m for every SstableMeta m: the same block
\* metas (offset, len, first_key, last_key) in the same order and the same
\* bloom filter bytes.
C21_MetaRoundTrip ==
    last.op = "decode" => last.result = last.args

(***************************************************************************)
(* LSM tree: the memtable iterator (memtable_iterator.rs).                 *)
(*                                                                         *)
(* SpecMemtable : one MemtableIterator over a fixed memtable, driven       *)
(* through seek, next and prev.  The memtable is the sequence of its rows  *)
(* [key, value] (full key, value slot) in the skiplist's order; the        *)
(* skiplist cursor is a row number, 0 when it is not valid.                *)
(***************************************************************************)
MaxRows == 4      \* a memtable holds 0..MaxRows rows

\* key.rs: user_key
user_key_of(fk) == SubSeq(fk, 1, Len(fk) - 8)

\* key.rs: timestamp, !get_u64_le of the last 8 bytes (below 2^31 here)
timestamp_of(fk) ==
    LET b == SubSeq(fk, Len(fk) - 7, Len(fk))
    IN  (255 - b[1]) + 256 * (255 - b[2]) + 65536 * (255 - b[3])
        + 16777216 * ((255 - b[4]) % 128)

\* value slot: tag 0 for a tombstone, tag 1 and the bytes for a value
value_slot(v) == IF v = None THEN <<0>> ELSE <<1>> \o v[1]

\* utils::value: the value in a value slot
value_of(slot) == IF slot[1] = 0 THEN None ELSE Some(Tail(slot))

\* FullKeyComparator: user key ascending, then timestamp descending
full_key_less(a, b) ==
    \/ bytes_less(user_key_of(a), user_key_of(b))
    \/ /\ user_key_of(a) = user_key_of(b)
       /\ timestamp_of(a) > timestamp_of(b)

\* the skiplist cursor (IterRef)
skip_valid(i) == i # 0
skip_seek_to_first(rows) == IF rows = <<>> THEN 0 ELSE 1
skip_seek_to_last(rows) == Len(rows)
skip_next(rows, i) == IF i = Len(rows) THEN 0 ELSE i + 1
skip_prev(rows, i) == i - 1
\* the first row >= target
skip_seek(rows, target) ==
    LET at == {i \in 1..Len(rows) : ~full_key_less(rows[i].key, target)}
    IN  IF at = {} THEN 0 ELSE CHOOSE i \in at : \A j \in at : i <= j
\* the last row <= target
skip_seek_for_prev(rows, target) ==
    LET at == {i \in 1..Len(rows) : ~full_key_less(target, rows[i].key)}
    IN  IF at = {} THEN 0 ELSE CHOOSE i \in at : \A j \in at : i >= j

MemtableIterator(iter, timestamp, key) ==
    [iter |-> iter, timestamp |-> timestamp, key |-> key]

\* MemtableIterator::new; memtable.iter() is not positioned
memtable_new(timestamp) == MemtableIterator(0, timestamp, <<>>)

\* the loop of next_inner, entered with `found`
RECURSIVE memtable_next_inner(_, _, _, _)
memtable_next_inner(rows, it, key, found) ==
    IF ~skip_valid(it.iter) THEN [it |-> it, found |-> found]
    ELSE LET uk == user_key_of(rows[it.iter].key)
             ts == timestamp_of(rows[it.iter].key)
             found1 == found \/ (key = uk /\ it.timestamp >= ts)
             key1 == IF it.timestamp >= ts /\ value_of(rows[it.iter].value) = None
                     THEN uk ELSE it.key
         IN  IF it.timestamp >= ts /\ uk # key1
             THEN [it |-> [it EXCEPT !.key = uk], found |-> found1]
             ELSE memtable_next_inner(
                      rows, [it EXCEPT !.key = key1, !.iter = skip_next(rows, it.iter)],
                      key, found1)

\* prev() that stays on the version it met first
mutant_seek_latest_visiable(rows, it) == it

RECURSIVE seek_latest_visiable_current_user_key(_, _)
seek_latest_visiable_current_user_key(rows, it) ==
    LET p == skip_prev(rows, it.iter)
    IN  IF ~skip_valid(p) THEN [it EXCEPT !.iter = skip_seek_to_first(rows)]
        ELSE IF \/ it.key # user_key_of(rows[p].key)
                \/ it.timestamp < timestamp_of(rows[p].key)
        THEN [it EXCEPT !.iter = skip_next(rows, p)]
        ELSE seek_latest_visiable_current_user_key(rows, [it EXCEPT !.iter = p])

\* the loop of prev_inner, entered with `found`
RECURSIVE memtable_prev_inner(_, _, _, _)
memtable_prev_inner(rows, it, key, found) ==
    IF ~skip_valid(it.iter) THEN [it |-> it, found |-> found]
    ELSE LET uk == user_key_of(rows[it.iter].key)
             ts == timestamp_of(rows[it.iter].key)
             found1 == found \/ (key = uk /\ it.timestamp >= ts)
         IN  IF it.timestamp >= ts /\ uk # it.key
             THEN LET it1 == seek_latest_visiable_current_user_key(
                                 rows, [it EXCEPT !.key = uk])
                  IN  IF value_of(rows[it1.iter].value) # None
                      THEN [it |-> it1, found |-> found1]
                      ELSE [it |-> memtable_prev_inner(rows, it1, key, FALSE).it,
                            found |-> found1]
             ELSE memtable_prev_inner(
                      rows, [it EXCEPT !.iter = skip_prev(rows, it.iter)], key, found1)

memtable_is_valid(it) == skip_valid(it.iter)

\* MemtableIterator::key and MemtableIterator::value of a valid iterator
memtable_key(rows, it) == SubSeq(rows[it.iter].key, 1, Len(rows[it.iter].key) - 8)
memtable_value(rows, it) == Tail(rows[it.iter].value)

\* Seek, as far as MemtableIterator takes it
SeekFirst == [seek |-> "First", key |-> <<>>]
SeekLast == [seek |-> "Last", key |-> <<>>]
RandomForward(key) == [seek |-> "RandomForward", key |-> key]
RandomBackward(key) == [seek |-> "RandomBackward", key |-> key]

\* found by a seek that returns whether it ended valid
mutant_memtable_seek(rows, it, seek) ==
    LET cleared == [it EXCEPT !.key = <<>>]
        out == CASE seek.seek = "First" ->
                      memtable_next_inner(
                          rows, [cleared EXCEPT !.iter = skip_seek_to_first(rows)],
                          <<>>, FALSE)
                 [] seek.seek = "Last" ->
                      memtable_prev_inner(
                          rows, [cleared EXCEPT !.iter = skip_seek_to_last(rows)],
                          <<>>, FALSE)
                 [] seek.seek = "RandomForward" ->
                      memtable_next_inner(
                          rows,
                          [cleared EXCEPT
                              !.iter = skip_seek(rows, full_key(seek.key, U64_MAX))],
                          seek.key, FALSE)
                 [] seek.seek = "RandomBackward" ->
                      memtable_prev_inner(
                          rows,
                          [cleared EXCEPT
                              !.iter = skip_seek_for_prev(rows, full_key(seek.key, 0))],
                          seek.key, FALSE)
    IN  [it |-> out.it, found |-> memtable_is_valid(out.it)]

\* MemtableIterator::seek: the iterator after it and the bool returned
memtable_seek(rows, it, seek) ==
    LET cleared == [it EXCEPT !.key = <<>>]
    IN  CASE seek.seek = "First" ->
               LET out == memtable_next_inner(
                              rows, [cleared EXCEPT !.iter = skip_seek_to_first(rows)],
                              <<>>, FALSE)
               IN  [it |-> out.it, found |-> memtable_is_valid(out.it)]
          [] seek.seek = "Last" ->
               LET out == memtable_prev_inner(
                              rows, [cleared EXCEPT !.iter = skip_seek_to_last(rows)],
                              <<>>, FALSE)
               IN  [it |-> out.it, found |-> memtable_is_valid(out.it)]
          [] seek.seek = "RandomForward" ->
               memtable_next_inner(
                   rows,
                   [cleared EXCEPT !.iter = skip_seek(rows, full_key(seek.key, U64_MAX))],
                   seek.key, FALSE)
          [] seek.seek = "RandomBackward" ->
               memtable_prev_inner(
                   rows,
                   [cleared EXCEPT
                       !.iter = skip_seek_for_prev(rows, full_key(seek.key, 0))],
                   seek.key, FALSE)

memtable_next(rows, it) == memtable_next_inner(rows, it, <<>>, FALSE).it
memtable_prev(rows, it) == memtable_prev_inner(rows, it, <<>>, FALSE).it

\* the memtables of the model: the empty user key and two more, two
\* timestamps, every version a value or a tombstone
MemUserKeys == {<<>>, <<107>>, <<108>>}
MemTimestamps == {1, 2}
Snapshots == {0, 1, 2}
MemRows ==
    {[key |-> full_key(uk, ts),
      value |-> value_slot(IF present THEN Some(<<ts>>) ELSE None)] :
        uk \in MemUserKeys, ts \in MemTimestamps, present \in BOOLEAN}

\* Skiplist<FullKeyComparator>: the rows in the comparator's order
RECURSIVE SortRows(_)
SortRows(S) ==
    IF S = {} THEN <<>>
    ELSE LET first == CHOOSE r \in S : \A q \in S \ {r} : full_key_less(r.key, q.key)
         IN  <<first>> \o SortRows(S \ {first})

\* Memtable::put of up to MaxRows versions, one per user key and timestamp
Memtables ==
    {SortRows(S) :
        S \in {R \in SUBSET MemRows :
                  /\ Cardinality(R) <= MaxRows
                  /\ \A r \in R, q \in R : r.key = q.key => r = q}}

Seeks ==
    {SeekFirst, SeekLast}
    \cup {RandomForward(key) : key \in MemUserKeys}
    \cup {RandomBackward(key) : key \in MemUserKeys}

\* what a valid iterator shows
Shown(rows, it) ==
    IF memtable_is_valid(it) THEN <<[key |-> memtable_key(rows, it),
                                     value |-> memtable_value(rows, it)]>>
    ELSE <<>>

MemtableSeek(seek) ==
    LET out == memtable_seek(table, cursor, seek)
    IN  /\ cursor' = out.it
        /\ last' = [op |-> "seek", group |-> 0, args |-> seek, pre |-> cursor,
                    result |-> out.found]
        /\ yielded' = [scan |-> seek.seek, pairs |-> Shown(table, out.it)]
        /\ UNCHANGED <<RaftVars, table>>

MemtableNext ==
    /\ memtable_is_valid(cursor)
    /\ LET it == memtable_next(table, cursor)
       IN  /\ cursor' = it
           /\ last' = [op |-> "next", group |-> 0, args |-> NoArgs, pre |-> cursor,
                       result |-> Ok]
           /\ yielded' = IF yielded.scan = "First"
                         THEN [yielded EXCEPT !.pairs = @ \o Shown(table, it)]
                         ELSE [scan |-> "mixed", pairs |-> <<>>]
    /\ UNCHANGED <<RaftVars, table>>

MemtablePrev ==
    /\ memtable_is_valid(cursor)
    /\ LET it == memtable_prev(table, cursor)
       IN  /\ cursor' = it
           /\ last' = [op |-> "prev", group |-> 0, args |-> NoArgs, pre |-> cursor,
                       result |-> Ok]
           /\ yielded' = IF yielded.scan = "Last"
                         THEN [yielded EXCEPT !.pairs = @ \o Shown(table, it)]
                         ELSE [scan |-> "mixed", pairs |-> <<>>]
    /\ UNCHANGED <<RaftVars, table>>

InitMemtable ==
    /\ RaftIdle
    /\ table \in Memtables
    /\ \E timestamp \in Snapshots : cursor = memtable_new(timestamp)
    /\ yielded = [scan |-> "new", pairs |-> <<>>]
    /\ last = [op |-> "new", group |-> 0, args |-> NoArgs, pre |-> EmptyMap,
               result |-> Ok]

NextMemtable ==
    \/ \E seek \in Seeks : MemtableSeek(seek)
    \/ MemtableNext
    \/ MemtablePrev

SpecMemtable == InitMemtable /\ [][NextMemtable]_vars

\* the versions a snapshot read at `timestamp` sees
Visible(rows, timestamp, i) == timestamp_of(rows[i].key) <= timestamp

\* row i is the newest visible version of its user key
NewestVisible(rows, timestamp, i) ==
    /\ Visible(rows, timestamp, i)
    /\ \A j \in 1..Len(rows) :
          /\ user_key_of(rows[j].key) = user_key_of(rows[i].key)
          /\ Visible(rows, timestamp, j)
          => timestamp_of(rows[j].key) <= timestamp_of(rows[i].key)

\* the rows a snapshot read shows: newest visible versions that are puts
LiveRows(rows, timestamp) ==
    {i \in 1..Len(rows) :
        /\ NewestVisible(rows, timestamp, i)
        /\ value_of(rows[i].value) # None}

PairAt(rows, i) ==
    [key |-> user_key_of(rows[i].key), value |-> value_of(rows[i].value)[1]]

\* the pairs of the rows P by ascending user key
RECURSIVE AscendingPairs(_, _)
AscendingPairs(rows, P) ==
    IF P = {} THEN <<>>
    ELSE LET first == CHOOSE i \in P : \A j \in P \ {i} :
                          bytes_less(user_key_of(rows[i].key), user_key_of(rows[j].key))
         IN  <<PairAt(rows, first)>> \o AscendingPairs(rows, P \ {first})

Reverse(s) == [i \in 1..Len(s) |-> s[Len(s) + 1 - i]]

IsPrefix(s, t) == Len(s) <= Len(t) /\ s = SubSeq(t, 1, Len(s))

\* C22: seek(First) followed by next() until invalid yields exactly the user
\* keys whose newest version with ts <= T is a put, in strictly ascending
\* user-key order, each with the value of that version; user keys whose newest
\* visible version is a tombstone are not yielded.
C22_ForwardScan ==
    yielded.scan = "First"
    => LET expected == AscendingPairs(table, LiveRows(table, cursor.timestamp))
       IN  /\ IsPrefix(yielded.pairs, expected)
           /\ ~memtable_is_valid(cursor) => yielded.pairs = expected

\* the pairs next() shows from `it` on, `it` included, until it is invalid
RECURSIVE ScanForward(_, _)
ScanForward(rows, it) ==
    IF ~memtable_is_valid(it) THEN <<>>
    ELSE Shown(rows, it) \o ScanForward(rows, memtable_next(rows, it))

\* the forward scan of the iterator from seek(First)
ForwardScan(rows, timestamp) ==
    ScanForward(rows, memtable_seek(rows, memtable_new(timestamp), SeekFirst).it)

\* C23: seek(Last) followed by prev() until invalid yields the same (user key,
\* value) pairs as the forward scan from seek(First) at T, in strictly
\* descending user-key order; each position is the newest visible version of
\* its user key and tombstoned user keys are skipped.
C23_BackwardScan ==
    yielded.scan = "Last"
    => LET expected == Reverse(ForwardScan(table, cursor.timestamp))
       IN  /\ IsPrefix(yielded.pairs, expected)
           /\ ~memtable_is_valid(cursor) => yielded.pairs = expected
           /\ memtable_is_valid(cursor)
              => cursor.iter \in LiveRows(table, cursor.timestamp)

\* the user keys a snapshot read shows
LiveKeys(rows, timestamp) ==
    {user_key_of(rows[i].key) : i \in LiveRows(rows, timestamp)}

bytes_le(a, b) == a = b \/ bytes_less(a, b)

\* C24: seek(RandomForward(k)) leaves the iterator on the smallest user key
\* >= k whose newest version with ts <= T is a put, showing that version's
\* value, and leaves it invalid when there is no such user key.
C24_SeekRandomForward ==
    last.op = "seek" /\ last.args.seek = "RandomForward"
    => LET at == {i \in LiveRows(table, cursor.timestamp) :
                     bytes_le(last.args.key, user_key_of(table[i].key))}
       IN  IF at = {} THEN ~memtable_is_valid(cursor)
           ELSE /\ memtable_is_valid(cursor)
                /\ Shown(table, cursor) = <<AscendingPairs(table, at)[1]>>

\* C25: seek(RandomBackward(k)) leaves the iterator on the largest user key
\* <= k whose newest version with ts <= T is a put, positioned on that
\* version, and leaves it invalid when there is no such user key.
C25_SeekRandomBackward ==
    last.op = "seek" /\ last.args.seek = "RandomBackward"
    => LET at == {i \in LiveRows(table, cursor.timestamp) :
                     bytes_le(user_key_of(table[i].key), last.args.key)}
       IN  IF at = {} THEN ~memtable_is_valid(cursor)
           ELSE /\ memtable_is_valid(cursor)
                /\ cursor.iter \in at
                /\ \A i \in at : bytes_le(user_key_of(table[i].key),
                                          user_key_of(table[cursor.iter].key))

\* the memtable holds a version of user key k that the snapshot sees
HasVisible(rows, timestamp, k) ==
    \E i \in 1..Len(rows) :
        user_key_of(rows[i].key) = k /\ Visible(rows, timestamp, i)

\* C26: seek(RandomForward(k)) and seek(RandomBackward(k)) return found = true
\* iff the memtable holds a version of user key k with ts <= T, whatever key
\* the iterator ends on; seek(First) and seek(Last) return true iff the
\* iterator ends valid.
C26_SeekFound ==
    last.op = "seek"
    => IF last.args.seek \in {"RandomForward", "RandomBackward"}
       THEN last.result = HasVisible(table, cursor.timestamp, last.args.key)
       ELSE last.result = memtable_is_valid(cursor)

\* a random seek found a tombstoned user key and ended elsewhere, or invalid
C26_Witness ==
    /\ last.op = "seek"
    /\ last.args.seek \in {"RandomForward", "RandomBackward"}
    /\ last.result = TRUE
    /\ HasVisible(table, cursor.timestamp, last.args.key)
    /\ \/ ~memtable_is_valid(cursor)
       \/ memtable_key(table, cursor) # last.args.key

(***************************************************************************)
(* LSM tree: the concat iterator (concat_iterator.rs).                     *)
(*                                                                         *)
(* SpecConcat : one ConcatIterator over a fixed vector of children, driven *)
(* through seek, next and prev.  A child is an iterator over an ascending  *)
(* run of [key, value] entries (a block); its state is the number of the   *)
(* entry it is on, 0 when it is not valid.  `table` holds the runs,        *)
(* `cursor` the ConcatIterator: the children's states and the offset.      *)
(***************************************************************************)
MaxChildren == 2  \* a ConcatIterator holds 0..MaxChildren children

Random(key) == [seek |-> "Random", key |-> key]

\* BlockIterator: a direct scan over the entries of one block
block_new == 0
block_is_valid(i) == i # 0
block_seek(block, seek) ==
    CASE seek.seek = "First" -> IF block = <<>> THEN 0 ELSE 1
      [] seek.seek = "Last" -> Len(block)
      [] seek.seek = "Random" ->
           LET at == {i \in 1..Len(block) : ~bytes_less(block[i].key, seek.key)}
           IN  IF at = {} THEN 0 ELSE CHOOSE i \in at : \A j \in at : i <= j
block_next(block, i) == IF i = Len(block) THEN 0 ELSE i + 1
block_prev(block, i) == i - 1

\* usize::saturating_sub
saturating_sub(a, b) == IF a < b THEN 0 ELSE a - b

ConcatIterator(iters, offset) == [iters |-> iters, offset |-> offset]

\* ConcatIterator::new over children that were not positioned yet
concat_new(blocks) == ConcatIterator([i \in 1..Len(blocks) |-> block_new], 0)

concat_is_valid(it) == it.offset < Len(it.iters)

\* self.iters[offset].is_valid()
child_is_valid(it, offset) == block_is_valid(it.iters[offset + 1])

\* self.iters[offset].seek(seek)
child_seek(blocks, it, offset, seek) ==
    [it EXCEPT !.iters[offset + 1] = block_seek(blocks[offset + 1], seek)]

concat_invalid(it) == [it EXCEPT !.offset = Len(it.iters)]

\* next() of an exhausted child ends the scan
mutant_concat_next_inner(blocks, it) ==
    LET moved == [it EXCEPT !.iters[it.offset + 1] =
                                block_next(blocks[it.offset + 1], @)]
    IN  IF child_is_valid(moved, it.offset) THEN moved ELSE concat_invalid(moved)

concat_next_inner(blocks, it) ==
    LET moved == [it EXCEPT !.iters[it.offset + 1] =
                                block_next(blocks[it.offset + 1], @)]
    IN  IF child_is_valid(moved, it.offset) THEN moved
        ELSE IF it.offset + 1 = Len(it.iters) THEN concat_invalid(moved)
        ELSE child_seek(blocks, [moved EXCEPT !.offset = it.offset + 1],
                        it.offset + 1, SeekFirst)

concat_prev_inner(blocks, it) ==
    LET moved == [it EXCEPT !.iters[it.offset + 1] =
                                block_prev(blocks[it.offset + 1], @)]
    IN  IF child_is_valid(moved, it.offset) THEN moved
        ELSE IF it.offset = 0 THEN concat_invalid(moved)
        ELSE child_seek(blocks, [moved EXCEPT !.offset = it.offset - 1],
                        it.offset - 1, SeekLast)

\* the loop of binary_seek_inner: the iterator (its children are sought) and
\* the offset returned
RECURSIVE concat_binary_seek_loop(_, _, _, _, _, _)
concat_binary_seek_loop(blocks, it, key, size, left, right) ==
    IF ~(left < right) THEN [it |-> it, offset |-> saturating_sub(left, 1)]
    ELSE LET mid == left + size \div 2
             sought == child_seek(blocks, it, mid, Random(key))
             child_key == blocks[mid + 1][sought.iters[mid + 1]].key
             cmp == IF child_is_valid(sought, mid)
                    THEN IF bytes_less(child_key, key) THEN "Less"
                         ELSE IF child_key = key THEN "Equal" ELSE "Greater"
                    ELSE "Less"
         IN  CASE cmp = "Less" ->
                    concat_binary_seek_loop(blocks, sought, key,
                                            right - (mid + 1), mid + 1, right)
               [] cmp = "Equal" -> [it |-> sought, offset |-> mid]
               [] cmp = "Greater" ->
                    concat_binary_seek_loop(blocks, sought, key, mid - left, left, mid)

concat_binary_seek_inner(blocks, it, key) ==
    concat_binary_seek_loop(blocks, it, key, Len(it.iters), 0, Len(it.iters))

concat_binary_seek(blocks, it, key) ==
    LET inner == concat_binary_seek_inner(blocks, it, key)
        offset == inner.offset
    IN  IF offset >= Len(it.iters) THEN concat_invalid(inner.it)
        ELSE LET sought == child_seek(blocks, inner.it, offset, Random(key))
             IN  IF child_is_valid(sought, offset)
                 THEN [sought EXCEPT !.offset = offset]
                 ELSE IF offset + 1 < Len(it.iters)
                 THEN child_seek(blocks, [sought EXCEPT !.offset = offset + 1],
                                 offset + 1, SeekFirst)
                 ELSE concat_invalid([sought EXCEPT !.offset = offset + 1])

\* ConcatIterator::seek: the iterator after it, or Panic (self.iters[0] and
\* self.iters[len - 1] of an empty vector)
concat_seek(blocks, it, seek) ==
    CASE seek.seek = "First" ->
           IF Len(it.iters) = 0 THEN Panic
           ELSE child_seek(blocks, [it EXCEPT !.offset = 0], 0, SeekFirst)
      [] seek.seek = "Last" ->
           IF Len(it.iters) = 0 THEN Panic
           ELSE child_seek(blocks, [it EXCEPT !.offset = Len(it.iters) - 1],
                           Len(it.iters) - 1, SeekLast)
      [] seek.seek = "Random" -> concat_binary_seek(blocks, it, seek.key)

\* ConcatIterator::next / prev of a valid iterator; the child's next / prev
\* asserts that the child is valid
concat_next(blocks, it) ==
    IF ~child_is_valid(it, it.offset) THEN Panic ELSE concat_next_inner(blocks, it)
concat_prev(blocks, it) ==
    IF ~child_is_valid(it, it.offset) THEN Panic ELSE concat_prev_inner(blocks, it)

\* ConcatIterator::key / value of a valid iterator with a valid child
concat_entry(blocks, it) == blocks[it.offset + 1][it.iters[it.offset + 1]]

\* the children of the model: runs over five keys, each run ascending and
\* non-empty, the runs disjoint and in ascending order
ConcatKeys == {<<1>>, <<2>>, <<3>>, <<4>>, <<5>>}
BlockEntry(key) == [key |-> key, value |-> <<100 + key[1]>>]

RECURSIVE SortKeys(_)
SortKeys(S) ==
    IF S = {} THEN <<>>
    ELSE LET first == CHOOSE k \in S : \A q \in S \ {k} : bytes_less(k, q)
         IN  <<BlockEntry(first)>> \o SortKeys(S \ {first})

\* the ways to cut an ascending run of entries into up to n non-empty runs
RECURSIVE Runs(_, _)
Runs(run, n) ==
    IF run = <<>> THEN {<<>>}
    ELSE IF n = 0 THEN {}
    ELSE UNION {{<<SubSeq(run, 1, k)>> \o rest :
                    rest \in Runs(SubSeq(run, k + 1, Len(run)), n - 1)} :
                k \in 1..Len(run)}

Children ==
    UNION {Runs(SortKeys(S), MaxChildren) : S \in SUBSET ConcatKeys}

ConcatSeeks == {SeekFirst, SeekLast} \cup {Random(key) : key \in ConcatKeys}

\* what the iterator shows: the entry of a valid iterator with a valid child
ConcatShown(blocks, it) ==
    IF concat_is_valid(it) /\ child_is_valid(it, it.offset)
    THEN <<concat_entry(blocks, it)>>
    ELSE <<>>

\* an operation of the iterator: a panic leaves nothing to go on with
ConcatCall(op, seek, out, scan) ==
    /\ last' = [op |-> op, group |-> 0, args |-> seek, pre |-> cursor,
                result |-> IF out = Panic THEN Panic ELSE Ok]
    /\ cursor' = out
    /\ yielded' = IF out = Panic THEN [scan |-> "panic", pairs |-> <<>>]
                  ELSE IF scan = yielded.scan
                  THEN [yielded EXCEPT !.pairs = @ \o ConcatShown(table, out)]
                  ELSE IF op = "seek"
                  THEN [scan |-> seek.seek, pairs |-> ConcatShown(table, out)]
                  ELSE [scan |-> "mixed", pairs |-> <<>>]
    /\ UNCHANGED <<RaftVars, table>>

ConcatSeek(seek) ==
    /\ cursor # Panic
    /\ ConcatCall("seek", seek, concat_seek(table, cursor, seek), "seek")

ConcatNext ==
    /\ cursor # Panic
    /\ concat_is_valid(cursor)
    /\ ConcatCall("next", NoArgs, concat_next(table, cursor), "First")

ConcatPrev ==
    /\ cursor # Panic
    /\ concat_is_valid(cursor)
    /\ ConcatCall("prev", NoArgs, concat_prev(table, cursor), "Last")

InitConcat ==
    /\ RaftIdle
    /\ table \in Children
    /\ cursor = concat_new(table)
    /\ yielded = [scan |-> "new", pairs |-> <<>>]
    /\ last = [op |-> "new", group |-> 0, args |-> NoArgs, pre |-> EmptyMap,
               result |-> Ok]

NextConcat ==
    \/ \E seek \in ConcatSeeks : ConcatSeek(seek)
    \/ ConcatNext
    \/ ConcatPrev

SpecConcat == InitConcat /\ [][NextConcat]_vars

\* every entry of every child, child after child
RECURSIVE AllEntries(_)
AllEntries(blocks) ==
    IF blocks = <<>> THEN <<>> ELSE Head(blocks) \o AllEntries(Tail(blocks))

\* C27: ConcatIterator.seek(Random(key)) over children with disjoint ascending
\* key ranges leaves the iterator on the smallest key >= target among all
\* entries of all children, also when the target lies strictly between two
\* entries of one child, and leaves it invalid iff every entry is < target.
C27_ConcatSeekRandom ==
    last.op = "seek" /\ last.args.seek = "Random"
    => LET all == AllEntries(table)
           at == {i \in 1..Len(all) : ~bytes_less(all[i].key, last.args.key)}
       IN  IF at = {} THEN ~concat_is_valid(cursor)
           ELSE /\ concat_is_valid(cursor)
                /\ ConcatShown(table, cursor)
                   = <<all[CHOOSE i \in at : \A j \in at : i <= j]>>

\* C28: in every state of a ConcatIterator, right after construction and after
\* any sequence of seek / next / prev, is_valid() implies that the child at
\* the current offset is valid.
C28_ValidChild ==
    cursor # Panic /\ concat_is_valid(cursor)
    => child_is_valid(cursor, cursor.offset)

\* C29: after seek(First), repeated next() yields every entry of every child,
\* child after child in order, and then the iterator is invalid; after
\* seek(Last), repeated prev() yields the same entries in the reverse order and
\* then the iterator is invalid.
C29_ConcatScans ==
    /\ yielded.scan = "First"
       => /\ IsPrefix(yielded.pairs, AllEntries(table))
          /\ ~concat_is_valid(cursor) => yielded.pairs = AllEntries(table)
    /\ yielded.scan = "Last"
       => /\ IsPrefix(yielded.pairs, Reverse(AllEntries(table)))
          /\ ~concat_is_valid(cursor) => yielded.pairs = Reverse(AllEntries(table))

\* a forward scan went through two children and ended
C29_Witness ==
    /\ yielded.scan = "First"
    /\ last.op = "next"
    /\ Len(table) = 2
    /\ ~concat_is_valid(cursor)
    /\ Len(yielded.pairs) >= 3

(***************************************************************************)
(* LSM tree: the sstable iterator (sstable_iterator.rs).                   *)
(*                                                                         *)
(* SpecSstable : one SstableIterator over a fixed SSTable, driven through  *)
(* seek, next and prev.  `table` holds the blocks of the SSTable, one per  *)
(* block meta, as the store returns them; `cursor` the SstableIterator:    *)
(* offset and iterator (None, or Some state of a BlockIterator).           *)
(***************************************************************************)
SstableIterator(offset, iterator) == [offset |-> offset, iterator |-> iterator]

sstable_new == SstableIterator(USIZE_MAX, None)

\* self.sstable.meta.block_metas.len()
block_metas_len(blocks) == Len(blocks)

\* SstableStore::block(sstable, offset)
sstable_block(blocks, offset) == blocks[offset + 1]

sstable_invalid(blocks, it) == SstableIterator(block_metas_len(blocks), None)

sstable_is_valid(blocks, it) == it.offset < block_metas_len(blocks)

\* next() of an exhausted block ends the scan
mutant_sstable_next_inner(blocks, it) ==
    LET iter == block_next(sstable_block(blocks, it.offset), it.iterator[1])
    IN  IF block_is_valid(iter) THEN [it EXCEPT !.iterator = Some(iter)]
        ELSE sstable_invalid(blocks, it)

sstable_next_inner(blocks, it) ==
    LET iter == block_next(sstable_block(blocks, it.offset), it.iterator[1])
    IN  IF block_is_valid(iter) THEN [it EXCEPT !.iterator = Some(iter)]
        ELSE IF it.offset + 1 < block_metas_len(blocks)
        THEN SstableIterator(
                 it.offset + 1,
                 Some(block_seek(sstable_block(blocks, it.offset + 1), SeekFirst)))
        ELSE sstable_invalid(blocks, it)

sstable_prev_inner(blocks, it) ==
    LET iter == block_prev(sstable_block(blocks, it.offset), it.iterator[1])
    IN  IF block_is_valid(iter) THEN [it EXCEPT !.iterator = Some(iter)]
        ELSE IF it.offset > 0
        THEN SstableIterator(
                 it.offset - 1,
                 Some(block_seek(sstable_block(blocks, it.offset - 1), SeekLast)))
        ELSE sstable_invalid(blocks, it)

\* the loop of binary_seek_inner
RECURSIVE sstable_binary_seek_loop(_, _, _, _, _)
sstable_binary_seek_loop(blocks, key, size, left, right) ==
    IF ~(left < right) THEN saturating_sub(left, 1)
    ELSE LET mid == left + size \div 2
             block == sstable_block(blocks, mid)
             iter == block_seek(block, Random(key))
             cmp == IF block_is_valid(iter)
                    THEN IF bytes_less(block[iter].key, key) THEN "Less"
                         ELSE IF block[iter].key = key THEN "Equal" ELSE "Greater"
                    ELSE "Less"
         IN  CASE cmp = "Less" ->
                    sstable_binary_seek_loop(blocks, key, right - (mid + 1),
                                             mid + 1, right)
               [] cmp = "Equal" -> mid
               [] cmp = "Greater" ->
                    sstable_binary_seek_loop(blocks, key, mid - left, left, mid)

sstable_binary_seek_inner(blocks, key) ==
    sstable_binary_seek_loop(blocks, key, block_metas_len(blocks), 0,
                             block_metas_len(blocks))

\* binary_seek that moves to the first entry of the next block
mutant_sstable_binary_seek(blocks, it, key) ==
    LET offset == sstable_binary_seek_inner(blocks, key)
    IN  IF offset >= block_metas_len(blocks) THEN sstable_invalid(blocks, it)
        ELSE LET iter == block_seek(sstable_block(blocks, offset), Random(key))
             IN  IF block_is_valid(iter) THEN SstableIterator(offset, Some(iter))
                 ELSE IF offset + 1 < block_metas_len(blocks)
                 THEN SstableIterator(
                          offset + 1,
                          Some(block_seek(sstable_block(blocks, offset + 1),
                                          SeekFirst)))
                 ELSE sstable_invalid(blocks, it)

sstable_binary_seek(blocks, it, key) ==
    LET offset == sstable_binary_seek_inner(blocks, key)
    IN  IF offset >= block_metas_len(blocks) THEN sstable_invalid(blocks, it)
        ELSE LET iter == block_seek(sstable_block(blocks, offset), Random(key))
             IN  IF block_is_valid(iter) THEN SstableIterator(offset, Some(iter))
                 ELSE IF offset + 1 < block_metas_len(blocks)
                 THEN SstableIterator(
                          offset + 1,
                          Some(block_seek(sstable_block(blocks, offset + 1),
                                          Random(key))))
                 ELSE sstable_invalid(blocks, it)

\* SstableIterator::seek: the iterator after it, or Panic (block 0 and block
\* len - 1 of an SSTable without blocks)
sstable_seek(blocks, it, seek) ==
    CASE seek.seek = "First" ->
           IF block_metas_len(blocks) = 0 THEN Panic
           ELSE SstableIterator(0, Some(block_seek(sstable_block(blocks, 0), SeekFirst)))
      [] seek.seek = "Last" ->
           IF block_metas_len(blocks) = 0 THEN Panic
           ELSE SstableIterator(
                    block_metas_len(blocks) - 1,
                    Some(block_seek(sstable_block(blocks, block_metas_len(blocks) - 1),
                                    SeekLast)))
      [] seek.seek = "Random" -> sstable_binary_seek(blocks, it, seek.key)

\* SstableIterator::key / value of a valid iterator
sstable_entry(blocks, it) == sstable_block(blocks, it.offset)[it.iterator[1]]

\* the SSTables of the model: up to MaxBlocks blocks over five keys
Sstables ==
    UNION {Runs(SortKeys(S), MaxBlocks) : S \in SUBSET ConcatKeys}

SstableShown(blocks, it) ==
    IF sstable_is_valid(blocks, it) /\ it.iterator # None
                                    /\ block_is_valid(it.iterator[1])
    THEN <<sstable_entry(blocks, it)>>
    ELSE <<>>

SstableCall(op, seek, out, scan) ==
    /\ last' = [op |-> op, group |-> 0, args |-> seek, pre |-> cursor,
                result |-> IF out = Panic THEN Panic ELSE Ok]
    /\ cursor' = out
    /\ yielded' = IF out = Panic THEN [scan |-> "panic", pairs |-> <<>>]
                  ELSE IF scan = yielded.scan
                  THEN [yielded EXCEPT !.pairs = @ \o SstableShown(table, out)]
                  ELSE IF op = "seek"
                  THEN [scan |-> seek.seek, pairs |-> SstableShown(table, out)]
                  ELSE [scan |-> "mixed", pairs |-> <<>>]
    /\ UNCHANGED <<RaftVars, table>>

SstableSeek(seek) ==
    /\ cursor # Panic
    /\ SstableCall("seek", seek, sstable_seek(table, cursor, seek), "seek")

SstableNext ==
    /\ cursor # Panic
    /\ sstable_is_valid(table, cursor)
    /\ SstableCall("next", NoArgs, sstable_next_inner(table, cursor), "First")

SstablePrev ==
    /\ cursor # Panic
    /\ sstable_is_valid(table, cursor)
    /\ SstableCall("prev", NoArgs, sstable_prev_inner(table, cursor), "Last")

InitSstable ==
    /\ RaftIdle
    /\ table \in Sstables
    /\ cursor = sstable_new
    /\ yielded = [scan |-> "new", pairs |-> <<>>]
    /\ last = [op |-> "new", group |-> 0, args |-> NoArgs, pre |-> EmptyMap,
               result |-> Ok]

NextSstable ==
    \/ \E seek \in ConcatSeeks : SstableSeek(seek)
    \/ SstableNext
    \/ SstablePrev

SpecSstable == InitSstable /\ [][NextSstable]_vars

C31_SstableScans ==
    /\ yielded.scan = "First"
       => /\ IsPrefix(yielded.pairs, AllEntries(table))
          /\ ~sstable_is_valid(table, cursor) => yielded.pairs = AllEntries(table)
    /\ yielded.scan = "Last"
       => /\ IsPrefix(yielded.pairs, Reverse(AllEntries(table)))
          /\ ~sstable_is_valid(table, cursor)
             => yielded.pairs = Reverse(AllEntries(table))

\* a backward scan went through three blocks and ended before block 0
C31_Witness ==
    /\ yielded.scan = "Last"
    /\ last.op = "prev"
    /\ Len(table) = 3
    /\ ~sstable_is_valid(table, cursor)
    /\ Len(yielded.pairs) >= 4


\* ---------------------------------------------------------------------------
\* SstableBuilder (sstable.rs:133-241)
\* ---------------------------------------------------------------------------

\* number of add calls explored before build()
MaxAdds == 3

\* a little-endian usize back as a number (values below 2^31 here)
usize_of(x) == get_len(x)

put_u16_le(n) == [i \in 1..2 |-> le_byte(n, i - 1)]

\* BlockBuilder (spec 4.2) with restart_interval 1 and no compression: every
\* entry is a restart point and stores its key in full
BlockBuilder_new == <<>>

BlockBuilder_add(builder, key, val) == Append(builder, [key |-> key, value |-> val])

\* | key_diff_len:u16 | shared_prefix_len:u16 | value_len:u32 | key | value |
block_entry_encode(e) ==
    put_u16_le(Len(e.key)) \o put_u16_le(0) \o put_u32_le(Len(e.value))
    \o e.key \o e.value

RECURSIVE block_entries_encode(_)
block_entries_encode(builder) ==
    IF builder = <<>> THEN <<>>
    ELSE block_entries_encode(SubSeq(builder, 1, Len(builder) - 1))
         \o block_entry_encode(builder[Len(builder)])

\* the offset at which entry i starts
block_restart(builder, i) == Len(block_entries_encode(SubSeq(builder, 1, i - 1)))

\* entries so far, their restart offsets and the restart count
BlockBuilder_approximate_len(builder) ==
    Len(block_entries_encode(builder)) + 4 * Len(builder) + 4

\* | entries | restart offsets | R:u32 | compression_type:u8 | crc32:u32 |
BlockBuilder_build(builder) ==
    LET body == block_entries_encode(builder)
                \o Concat([i \in 1..Len(builder) |-> put_u32_le(block_restart(builder, i))])
                \o put_u32_le(Len(builder))
                \o <<0>>
    IN  body \o crc32sum(body)

\* farmhash::fingerprint32 stand-in: some function of the user key
fingerprint32(ukey) == byte_sum(ukey, 1, Len(ukey))

SstableBuilder(block_capacity, buf, block_builder, block_metas, user_key_hashes, last_full_key) ==
    [block_capacity |-> block_capacity, buf |-> buf, block_builder |-> block_builder,
     block_metas |-> block_metas, user_key_hashes |-> user_key_hashes,
     last_full_key |-> last_full_key]

builder_new(block_capacity) ==
    SstableBuilder(block_capacity, <<>>, None, <<>>, <<>>, <<>>)

\* build_block that keeps last_full_key
mutant_build_block(b) ==
    IF b.block_builder = None THEN b
    ELSE LET n     == Len(b.block_metas)
             block == BlockBuilder_build(b.block_builder[1])
             buf   == b.buf \o block
         IN  [b EXCEPT !.block_builder = None,
                       !.buf = buf,
                       !.block_metas[n].last_key = b.last_full_key,
                       !.block_metas[n].len =
                            usize_le(Len(buf) - usize_of(b.block_metas[n].offset))]

build_block(b) ==
    IF b.block_builder = None THEN b
    ELSE LET n     == Len(b.block_metas)
             block == BlockBuilder_build(b.block_builder[1])
             buf   == b.buf \o block
         IN  [b EXCEPT !.block_builder = None,
                       !.buf = buf,
                       !.block_metas[n].last_key = b.last_full_key,
                       !.block_metas[n].len =
                            usize_le(Len(buf) - usize_of(b.block_metas[n].offset)),
                       !.last_full_key = <<>>]

builder_add(b, ukey, ts, val) ==
    LET rotated == IF b.block_builder = None
                   THEN [b EXCEPT !.block_builder = Some(BlockBuilder_new),
                                  !.block_metas = Append(@,
                                      BlockMeta(usize_le(Len(b.buf)), usize_le(0), <<>>, <<>>))]
                   ELSE b
        fkey    == full_key(ukey, ts)
        n       == Len(rotated.block_metas)
        added   == [rotated EXCEPT
                       !.block_builder = Some(BlockBuilder_add(@[1], fkey, val)),
                       !.user_key_hashes = Append(@, fingerprint32(ukey)),
                       !.block_metas[n].first_key =
                            IF rotated.last_full_key = <<>> THEN fkey ELSE @,
                       !.last_full_key = fkey]
    IN  IF BlockBuilder_approximate_len(added.block_builder[1]) >= added.block_capacity
        THEN build_block(added)
        ELSE added

\* build() without sealing the last block
mutant_builder_build(b) ==
    [meta |-> SstableMeta(b.block_metas, <<>>),
     data |-> b.buf \o put_u32_le(Len(b.block_metas))]

\* bloom_false_positive is 0.0 here: the filter is vec![]
builder_build(b) ==
    LET sealed == build_block(b)
    IN  [meta |-> SstableMeta(sealed.block_metas, <<>>),
         data |-> sealed.buf \o put_u32_le(Len(sealed.block_metas))]

BlockCapacities == {1, 48, 64}
BuilderValues == {value_slot(None), value_slot(Some(<<118>>))}

\* yielded.blocks: the full keys added, grouped by the block builder that took them
BuilderAdd(ukey, ts, val) ==
    /\ cursor = None
    /\ Len(yielded.adds) < MaxAdds
    /\ table' = builder_add(table, ukey, ts, val)
    /\ yielded' = [adds |-> Append(yielded.adds, full_key(ukey, ts)),
                   blocks |-> IF table.block_builder = None
                              THEN Append(yielded.blocks, <<full_key(ukey, ts)>>)
                              ELSE [yielded.blocks EXCEPT ![Len(yielded.blocks)] =
                                        Append(@, full_key(ukey, ts))]]
    /\ last' = [op |-> "add", group |-> 0, args |-> [index |-> ts], pre |-> table,
                result |-> Ok]
    /\ UNCHANGED <<RaftVars, cursor>>

BuilderBuild ==
    /\ cursor = None
    /\ cursor' = Some(builder_build(table))
    /\ last' = [op |-> "build", group |-> 0, args |-> NoArgs, pre |-> table,
                result |-> Ok]
    /\ UNCHANGED <<RaftVars, table, yielded>>

InitBuilder ==
    /\ RaftIdle
    /\ \E block_capacity \in BlockCapacities : table = builder_new(block_capacity)
    /\ cursor = None
    /\ yielded = [adds |-> <<>>, blocks |-> <<>>]
    /\ last = [op |-> "new", group |-> 0, args |-> NoArgs, pre |-> EmptyMap,
               result |-> Ok]

NextBuilder ==
    \/ \E ukey \in MemUserKeys, ts \in MemTimestamps, val \in BuilderValues :
          BuilderAdd(ukey, ts, val)
    \/ BuilderBuild

SpecBuilder == InitBuilder /\ [][NextBuilder]_vars

Ascending(keys) == \A i \in 1..(Len(keys) - 1) : bytes_less(keys[i], keys[i + 1])

\* C32: after add calls in ascending full-key order and build(), every
\* block_metas[i].first_key is the first full key added to block i, every
\* last_key the last one added to it, and last_key of a block is below
\* first_key of the next block
C32_BlockKeys ==
    (cursor # None /\ Ascending(yielded.adds))
    => LET metas == cursor[1].meta.block_metas
       IN  /\ Len(metas) = Len(yielded.blocks)
           /\ \A i \in 1..Len(metas) :
                 /\ metas[i].first_key = yielded.blocks[i][1]
                 /\ metas[i].last_key = yielded.blocks[i][Len(yielded.blocks[i])]
           /\ \A i \in 1..(Len(metas) - 1) :
                 bytes_less(metas[i].last_key, metas[i + 1].first_key)

\* three ascending adds built into a two-entry block and a one-entry block
C32_Witness ==
    /\ cursor # None
    /\ Ascending(yielded.adds)
    /\ Len(yielded.blocks) = 2
    /\ Len(yielded.blocks[1]) = 2
    /\ last.op = "build"

RECURSIVE SumLens(_)
SumLens(metas) ==
    IF metas = <<>> THEN 0 ELSE usize_of(Head(metas).len) + SumLens(Tail(metas))

\* C38: after any add calls and build(), block_metas[0].offset is 0, offsets
\* are contiguous, no block meta has len 0 or an empty first_key / last_key,
\* the data is as long as the blocks plus 4, and its trailing u32 is the
\* number of block metas (0 when nothing was added)
C38_DataLayout ==
    cursor # None
    => LET metas == cursor[1].meta.block_metas
           sst_data == cursor[1].data
       IN  /\ metas # <<>> => usize_of(metas[1].offset) = 0
           /\ \A i \in 1..(Len(metas) - 1) :
                 usize_of(metas[i + 1].offset)
                    = usize_of(metas[i].offset) + usize_of(metas[i].len)
           /\ \A i \in 1..Len(metas) :
                 /\ usize_of(metas[i].len) # 0
                 /\ metas[i].first_key # <<>>
                 /\ metas[i].last_key # <<>>
           /\ Len(sst_data) = SumLens(metas) + 4
           /\ SubSeq(sst_data, Len(sst_data) - 3, Len(sst_data)) = put_u32_le(Len(metas))
           /\ yielded.adds = <<>> => metas = <<>>

\* unordered adds built into three blocks
C38_Witness ==
    /\ cursor # None
    /\ ~Ascending(yielded.adds)
    /\ Len(cursor[1].meta.block_metas) = 3
    /\ last.op = "build"


\* ---------------------------------------------------------------------------
\* SstableIterator with failing block fetches (sstable_iterator.rs:41-191)
\* ---------------------------------------------------------------------------

\* the Err(..) of SstableStore::block, propagated by `?`
FetchError == [kind |-> "FetchError", start |-> 0, end |-> 0]

\* next_inner reaches the block fetch of lines 47-50
sstable_next_fetches(blocks, it) ==
    /\ ~block_is_valid(block_next(sstable_block(blocks, it.offset), it.iterator[1]))
    /\ it.offset + 1 < block_metas_len(blocks)

\* next_inner when that fetch fails: offset is already moved, the block
\* iterator is still the exhausted one of the block before
sstable_next_inner_err(blocks, it) ==
    SstableIterator(
        it.offset + 1,
        Some(block_next(sstable_block(blocks, it.offset), it.iterator[1])))

\* prev_inner reaches the block fetch of lines 67-70
sstable_prev_fetches(blocks, it) ==
    /\ ~block_is_valid(block_prev(sstable_block(blocks, it.offset), it.iterator[1]))
    /\ it.offset > 0

sstable_prev_inner_err(blocks, it) ==
    SstableIterator(
        it.offset - 1,
        Some(block_prev(sstable_block(blocks, it.offset), it.iterator[1])))

\* binary_seek reaches the block fetch of lines 127-130
sstable_roll_fetches(blocks, key) ==
    LET offset == sstable_binary_seek_inner(blocks, key)
    IN  /\ offset < block_metas_len(blocks)
        /\ ~block_is_valid(block_seek(sstable_block(blocks, offset), Random(key)))
        /\ offset + 1 < block_metas_len(blocks)

\* seek with a failing fetch: the first fetch of First / Last, and for Random
\* either a fetch of the search (at = "search", lines 87-90 and 114-117) or
\* the fetch of the next block (at = "roll", lines 127-130)
sstable_seek_err(blocks, it, seek, at) ==
    CASE seek.seek = "First" -> SstableIterator(0, it.iterator)
      [] seek.seek = "Last" ->
           IF block_metas_len(blocks) = 0 THEN Panic
           ELSE SstableIterator(block_metas_len(blocks) - 1, it.iterator)
      [] seek.seek = "Random" ->
           IF at = "search" THEN it
           ELSE SstableIterator(sstable_binary_seek_inner(blocks, seek.key) + 1,
                                it.iterator)

\* yielded.held: the block the inner block iterator was created over
FetchCall(op, seek, out, result) ==
    /\ last' = [op |-> op, group |-> 0, args |-> seek, pre |-> cursor,
                result |-> IF out = Panic THEN Panic ELSE result]
    /\ cursor' = out
    /\ yielded' = IF out = Panic \/ result = FetchError THEN yielded
                  ELSE [held |-> IF out.iterator = None THEN None ELSE Some(out.offset)]
    /\ UNCHANGED <<RaftVars, table>>

\* is_valid() and the inner block iterator is on an entry of block `offset`
Positioned(blocks, it, held) ==
    /\ sstable_is_valid(blocks, it)
    /\ it.iterator # None
    /\ block_is_valid(it.iterator[1])
    /\ held = Some(it.offset)

FetchSeek(seek) ==
    /\ cursor # Panic
    /\ FetchCall("seek", seek, sstable_seek(table, cursor, seek), Ok)

FetchSeekFails(seek, at) ==
    /\ cursor # Panic
    /\ block_metas_len(table) > 0 \/ seek.seek = "Last"
    /\ seek.seek = "Random" <=> at \in {"search", "roll"}
    /\ at = "roll" => sstable_roll_fetches(table, seek.key)
    /\ FetchCall("seek", seek, sstable_seek_err(table, cursor, seek, at), FetchError)

\* next() and prev() are called on positioned iterators: after an error the
\* caller seeks again
FetchNext ==
    /\ cursor # Panic
    /\ Positioned(table, cursor, yielded.held)
    /\ FetchCall("next", NoArgs, sstable_next_inner(table, cursor), Ok)

FetchNextFails ==
    /\ cursor # Panic
    /\ Positioned(table, cursor, yielded.held)
    /\ sstable_next_fetches(table, cursor)
    /\ FetchCall("next", NoArgs, sstable_next_inner_err(table, cursor), FetchError)

FetchPrev ==
    /\ cursor # Panic
    /\ Positioned(table, cursor, yielded.held)
    /\ FetchCall("prev", NoArgs, sstable_prev_inner(table, cursor), Ok)

FetchPrevFails ==
    /\ cursor # Panic
    /\ Positioned(table, cursor, yielded.held)
    /\ sstable_prev_fetches(table, cursor)
    /\ FetchCall("prev", NoArgs, sstable_prev_inner_err(table, cursor), FetchError)

InitFetch ==
    /\ RaftIdle
    /\ table \in Sstables
    /\ cursor = sstable_new
    /\ yielded = [held |-> None]
    /\ last = [op |-> "new", group |-> 0, args |-> NoArgs, pre |-> EmptyMap,
               result |-> Ok]

NextFetch ==
    \/ \E seek \in ConcatSeeks : FetchSeek(seek)
    \/ \E seek \in ConcatSeeks, at \in {"first", "search", "roll"} :
          FetchSeekFails(seek, at)
    \/ FetchNext
    \/ FetchNextFails
    \/ FetchPrev
    \/ FetchPrevFails

SpecFetch == InitFetch /\ [][NextFetch]_vars

\* C36: when a block fetch fails inside seek / next / prev, the call returns
\* the error and the iterator is as before or invalid; is_valid() is never true
\* while the inner block iterator is absent, exhausted or over another block
\* than the one at offset
C36_FetchFailure ==
    (cursor # Panic /\ last.result = FetchError)
    => /\ cursor = last.pre \/ ~sstable_is_valid(table, cursor)
       /\ sstable_is_valid(table, cursor) => Positioned(table, cursor, yielded.held)

\* without a failed call a valid iterator is always positioned
C36_NoFailure ==
    (cursor # Panic /\ last.result = Ok /\ sstable_is_valid(table, cursor))
    => Positioned(table, cursor, yielded.held)


\* C37: switching direction returns to the same entry: from a valid position,
\* when prev() leaves the iterator valid a next() is back on the key and value
\* it left, and when next() leaves it valid a prev() is back on them
C37_DirectionSwitch ==
    /\ (last.op = "prev" /\ memtable_is_valid(cursor))
       => LET back == memtable_next(table, cursor)
          IN  /\ memtable_is_valid(back)
              /\ Shown(table, back) = Shown(table, last.pre)
    /\ (last.op = "next" /\ memtable_is_valid(cursor))
       => LET back == memtable_prev(table, cursor)
          IN  /\ memtable_is_valid(back)
              /\ Shown(table, back) = Shown(table, last.pre)

\* next() moved over an invisible or deleted row to a key with two visible
\* versions
C37_Witness ==
    /\ last.op = "next"
    /\ memtable_is_valid(cursor)
    /\ cursor.iter > last.pre.iter + 1
    /\ cursor.iter < Len(table)
    /\ user_key_of(table[cursor.iter + 1].key) = user_key_of(table[cursor.iter].key)
    /\ cursor.timestamp = 2


\* ---------------------------------------------------------------------------
\* MemStates on a removed group (mem.rs:45-93)
\* ---------------------------------------------------------------------------

MemMayAddGroup(group) ==
    /\ states' = may_add_group(states, group)
    /\ last' = Call("may_add_group", group, NoArgs, group \notin DOMAIN states)
    /\ UNCHANGED <<StoreVars, LsmVars>>

\* remove_group of a group that was removed before
MemRemoveAgain(group) ==
    /\ group \in DOMAIN states
    /\ Removed(states[group])
    /\ OnGroup("remove_group", group, NoArgs, remove_group(states[group]))
    /\ UNCHANGED <<StoreVars, LsmVars>>

NextRemove ==
    \/ \E group \in StoreGroups : MemAddGroup(group)
    \/ \E group \in StoreGroups : MemMayAddGroup(group)
    \/ \E group \in StoreGroups : MemRemoveGroup(group)
    \/ \E group \in StoreGroups : MemRemoveAgain(group)
    \/ \E group \in StoreGroups, first_index \in RaftIndexes, indices \in GroupBatches :
            MemAppend(group, first_index, indices)
    \/ \E group \in StoreGroups, key \in Keys, value \in Values :
            MemPut(group, key, value)

SpecRemove == Init /\ [][NextRemove]_vars

WasRemoved == last.group \in DOMAIN last.pre /\ Removed(last.pre[last.group])

\* C39: remove_group(g) of a registered group clears its indices and its kv
\* map and keeps g registered: afterwards add_group(g) returns
\* GroupAlreadyExists, may_add_group(g) returns false, and a second
\* remove_group(g) returns Ok
C39_RemovedStaysRegistered ==
    /\ (last.op = "remove_group" /\ last.group \in DOMAIN last.pre)
       => /\ last.result = Ok
          /\ DOMAIN states = DOMAIN last.pre
          /\ states[last.group].indices = <<>>
          /\ states[last.group].kvs = EmptyMap
          /\ \A g \in DOMAIN states \ {last.group} : states[g] = last.pre[g]
    /\ (last.op = "add_group" /\ WasRemoved)
       => last.result = GroupAlreadyExists(last.group) /\ states = last.pre
    /\ (last.op = "may_add_group" /\ WasRemoved)
       => last.result = FALSE /\ states = last.pre

\* a group with an entry and a key was removed, and is removed again
C39_Witness ==
    /\ last.op = "remove_group"
    /\ WasRemoved
    /\ last.result = Ok
    /\ \E g \in DOMAIN states : g # last.group /\ states[g].indices # <<>>
                                /\ states[g].kvs # EmptyMap


\* the state RaftLogStore::open would rebuild from the log as it is
Replayed(records) == open_replay(EmptyMap, records)

\* the first call of a store that fails, failing with an error it returns
FirstError ==
    /\ clean
    /\ ~clean'
    /\ last'.result.kind \in {"RaftLogGap", "GroupNotExists"}

\* C33: an append / compact / put / delete that returns an error (RaftLogGap,
\* GroupNotExists) has no lasting effect: an open of the same directory
\* afterwards succeeds and rebuilds no group and no entry that the live store
\* does not have
C33_FailedCallLeavesNoTrace ==
    [][FirstError
       => /\ Replayed(log').result = Ok
          /\ \A g \in DOMAIN Replayed(log').states :
                /\ g \in DOMAIN states'
                /\ Replayed(log').states[g] = states'[g]]_vars


\* the EntryIndex values were recorded from one batch: one data segment
SameBatch(a, b) == a.file_id = b.file_id /\ a.block_offset = b.block_offset

\* C35: reading the entries of one appended batch through entries reads and
\* decompresses its data segment at most once while the block is cached:
\* every EntryIndex of the batch maps to the same block-cache key, so the
\* read leaves one cached block per batch
C35_OneBlockPerBatch ==
    (last.op = "entries" /\ last.result.kind = "Ok")
    => LET read == {last.args.indices[i] : i \in 1..Len(last.args.indices)}
       IN  \A a \in read, b \in read :
              SameBatch(a, b) => entry_cache_key(a) = entry_cache_key(b)


\* ---------------------------------------------------------------------------
\* RaftLogStore called for several groups at once (store.rs:115-189): a call
\* awaits log.push and then the MemStates call; between the two the calls of
\* other groups run.  `cursor` holds, per group, the call that has pushed its
\* entry and not yet reached MemStates.
\* ---------------------------------------------------------------------------

InFlight == DOMAIN cursor

\* the entries the calls of the model push
PushedEntries(group) ==
    {RaftLogBatch(group, term, first_index, n) :
        term \in Terms, first_index \in StoreFirstIndexes, n \in StoreBatchLens}
    \cup {CompactEntry(group, index) : index \in StoreIndexes}
    \cup {PutEntry(group, key, value) : key \in Keys, value \in Values}
    \cup {DeleteEntry(group, key) : key \in Keys}

\* the first half of append / compact / put / delete: self.core.log.push(..)
ConcPush(group, pushed) ==
    /\ opened
    /\ group \notin InFlight
    /\ Len(log) < MaxLog
    /\ log_push(pushed)
    /\ cursor' = Insert(cursor, group,
                        [file_id |-> log_push_location.file_id,
                         write_offset |-> log_push_location.write_offset,
                         entry |-> pushed])
    /\ last' = StoreCall("push", group, [entry |-> pushed], Ok)
    /\ UNCHANGED <<states, block_cache, opened, clean, table, yielded>>

\* the MemStates call a pushed entry stands for
states_call(record) ==
    LET e == record.entry
        do_append(state) ==
            append(state, e.first_index,
                   append_indices(e, record.file_id, record.write_offset))
        do_compact(state) == compact(state, e.index)
        do_put(state) == put(state, e.key, e.value)
        do_delete(state) == delete(state, e.key)
    IN  CASE e.type = "RaftLogBatch" -> OnStates(e.group, do_append)
          [] e.type = "Compact" -> OnStates(e.group, do_compact)
          [] e.type = "Put" -> OnStates(e.group, do_put)
          [] e.type = "Delete" -> OnStates(e.group, do_delete)

\* the second half: self.core.states.append / compact / put / delete
ConcApply(group) ==
    /\ group \in InFlight
    /\ LET done == states_call(cursor[group])
       IN  /\ states' = done.states
           /\ last' = StoreCall(cursor[group].entry.type, group,
                                [entry |-> cursor[group].entry], done.result)
           /\ clean' = (clean /\ done.result.kind = "Ok")
    /\ cursor' = Remove(cursor, group)
    /\ UNCHANGED <<log, active, block_cache, opened, table, yielded>>

ConcAddGroup(group) ==
    /\ group \notin InFlight
    /\ StoreAddGroup(group)

\* the store is dropped and opened again once its calls have returned
ConcReopen ==
    /\ InFlight = {}
    /\ StoreReopen

NextConcurrent ==
    \/ \E group \in StoreGroups : ConcAddGroup(group)
    \/ \E group \in StoreGroups : \E pushed \in PushedEntries(group) :
          ConcPush(group, pushed)
    \/ \E group \in StoreGroups : ConcApply(group)
    \/ ConcReopen

SpecConcurrent == InitStore /\ [][NextConcurrent]_vars

\* the entries of one group, in the order its calls were issued
GroupLog(group) == SelectSeq(log, LAMBDA r : r.entry.group = group)

\* the state of the group equals its own calls applied in order, and the
\* state a replay of the whole log rebuilds
SerialAndReplayed(group) ==
    /\ Replayed(GroupLog(group)).result = Ok
    /\ Replayed(log).result = Ok
    /\ group \in DOMAIN states
    /\ states[group] = Replayed(GroupLog(group)).states[group]
    /\ states[group] = Replayed(log).states[group]

\* C34: with the calls of one group issued one after another and the calls of
\* different groups interleaving their log pushes and MemStates calls, every
\* group's state, once its calls have returned, equals the result of its own
\* operations in issue order and the state rebuilt by replaying the log
C34_GroupsIndependent ==
    (opened /\ InFlight = {}) => \A group \in LoggedGroups : SerialAndReplayed(group)

\* the same while every call has returned Ok
C34_OkCallsIndependent ==
    (opened /\ clean /\ InFlight = {})
    => \A group \in LoggedGroups : SerialAndReplayed(group)

\* two groups whose pushes and MemStates calls crossed
C34_Crossed ==
    /\ clean
    /\ InFlight = {}
    /\ Len(log) = 2
    /\ log[1].entry.group = 1
    /\ log[2].entry.group = 2
    /\ last.group = 1
    /\ last.op = "RaftLogBatch"
    /\ states[2].indices # <<>>


\* ---------------------------------------------------------------------------
\* The locks of MemStates (mem.rs:36-443): `states` is a tokio RwLock over the
\* map, every MemState sits behind its own RwLock.  `table` holds the calls
\* that run at once and where each of them is, `cursor` the locks.
\* ---------------------------------------------------------------------------

\* the calls running at once
Tasks == {1, 2, 3}

\* tokio::sync::RwLock: fair, waiters are served in the order they asked
RwLock(holders, writer, waiters) ==
    [holders |-> holders, writer |-> writer, waiters |-> waiters]

RwLock_new == RwLock({}, FALSE, <<>>)

\* read() / write() called: the task waits in line
lock_request(lock, task, mode) ==
    [lock EXCEPT !.waiters = Append(@, [task |-> task, mode |-> mode])]

\* the task is first in line and the lock can take it
lock_can_grant(lock, task) ==
    /\ lock.waiters # <<>>
    /\ Head(lock.waiters).task = task
    /\ IF Head(lock.waiters).mode = "write" THEN lock.holders = {} ELSE ~lock.writer

lock_grant(lock) ==
    RwLock(lock.holders \cup {Head(lock.waiters).task},
           Head(lock.waiters).mode = "write", Tail(lock.waiters))

\* the guard is dropped
lock_release(lock, task) ==
    [lock EXCEPT !.holders = @ \ {task}, !.writer = FALSE]

\* the end of a call that keeps the guard of the group
mutant_drop_guards(locks, task, group) ==
    [locks EXCEPT !.global = lock_release(@, task)]

\* the end of a call on a group: the guard of the group and the guard of the
\* map go out of scope
drop_guards(locks, task, group) ==
    [locks EXCEPT !.global = lock_release(@, task),
                  !.group[group] = lock_release(@, task)]

\* self.states.write() for the calls on the map, self.states.read() for the
\* calls on a group
global_mode(op) ==
    IF op \in {"add_group", "may_add_group", "remove_group"} THEN "write" ELSE "read"

\* .write() on the group for remove_group and the writes, .read() for the reads
group_mode(op) == IF op = "get" THEN "read" ELSE "write"

TaskKinds ==
    {[op |-> op, group |-> group] :
        op \in {"add_group", "may_add_group", "remove_group", "get", "put"},
        group \in StoreGroups}

TaskAt(task, pc) == table[task].pc = pc

Move(task, pc) == table' = [table EXCEPT ![task].pc = pc]

\* the call starts: self.states.read() / self.states.write()
LockBegin(task) ==
    /\ TaskAt(task, "start")
    /\ cursor' = [cursor EXCEPT
                     !.global = lock_request(@, task, global_mode(table[task].op))]
    /\ Move(task, "global_wait")
    /\ UNCHANGED <<states, last, StoreVars, yielded>>

\* .await on the map returns the guard
LockGlobal(task) ==
    /\ TaskAt(task, "global_wait")
    /\ lock_can_grant(cursor.global, task)
    /\ cursor' = [cursor EXCEPT !.global = lock_grant(@)]
    /\ Move(task, "global_held")
    /\ UNCHANGED <<states, last, StoreVars, yielded>>

\* under the guard of the map: add_group and may_add_group finish, a call on
\* a group that is not there returns GroupNotExists, the others ask for the
\* lock of the group
LockResolve(task) ==
    LET op == table[task].op
        group == table[task].group
    IN  /\ TaskAt(task, "global_held")
        /\ IF op \in {"add_group", "may_add_group"}
           THEN /\ states' = may_add_group(states, group)
                /\ last' = Call(op, group, NoArgs,
                                IF group \notin DOMAIN states THEN Ok
                                ELSE GroupAlreadyExists(group))
                /\ cursor' = [cursor EXCEPT !.global = lock_release(@, task)]
                /\ Move(task, "done")
           ELSE IF group \notin DOMAIN states
           THEN /\ states' = states
                /\ last' = Call(op, group, NoArgs, GroupNotExists(group))
                /\ cursor' = [cursor EXCEPT !.global = lock_release(@, task)]
                /\ Move(task, "done")
           ELSE /\ cursor' = [cursor EXCEPT
                                 !.group[group] = lock_request(@, task, group_mode(op))]
                /\ Move(task, "group_wait")
                /\ UNCHANGED <<states, last>>
        /\ UNCHANGED <<StoreVars, yielded>>

\* .await on the group returns the guard
LockGroup(task) ==
    /\ TaskAt(task, "group_wait")
    /\ lock_can_grant(cursor.group[table[task].group], task)
    /\ cursor' = [cursor EXCEPT !.group[table[task].group] = lock_grant(@)]
    /\ Move(task, "group_held")
    /\ UNCHANGED <<states, last, StoreVars, yielded>>

\* under both guards: the call does its work and returns
LockFinish(task) ==
    LET op == table[task].op
        group == table[task].group
        out == CASE op = "remove_group" -> remove_group(states[group])
                 [] op = "put" -> put(states[group], "k1", "v1")
                 [] op = "get" -> [state |-> states[group], result |-> Ok]
    IN  /\ TaskAt(task, "group_held")
        /\ OnGroup(op, group, NoArgs, out)
        /\ cursor' = drop_guards(cursor, task, group)
        /\ Move(task, "done")
        /\ UNCHANGED <<StoreVars, yielded>>

TaskStep(task) ==
    \/ LockBegin(task)
    \/ LockGlobal(task)
    \/ LockResolve(task)
    \/ LockGroup(task)
    \/ LockFinish(task)

\* the calls of the tasks, counted once per multiset
KindOrder(kind) ==
    2 * (CASE kind.op = "add_group" -> 0
           [] kind.op = "may_add_group" -> 1
           [] kind.op = "remove_group" -> 2
           [] kind.op = "get" -> 3
           [] kind.op = "put" -> 4)
    + kind.group

InitLocks ==
    /\ \E registered \in SUBSET StoreGroups :
          states = [g \in registered |-> NewMemState]
    /\ \E kinds \in [Tasks -> TaskKinds] :
          /\ \A t \in Tasks : t + 1 \in Tasks
                => KindOrder(kinds[t]) <= KindOrder(kinds[t + 1])
          /\ table = [t \in Tasks |->
                         [op |-> kinds[t].op, group |-> kinds[t].group, pc |-> "start"]]
    /\ cursor = [global |-> RwLock_new, group |-> [g \in StoreGroups |-> RwLock_new]]
    /\ yielded = <<>>
    /\ last = [op |-> "new", group |-> 0, args |-> NoArgs, pre |-> EmptyMap,
               result |-> Ok]
    /\ log = <<>>
    /\ active = [file_id |-> 1, len |-> 0]
    /\ block_cache = EmptyMap
    /\ opened = FALSE
    /\ clean = TRUE

NextLocks == \E task \in Tasks : TaskStep(task)

SpecLocks == InitLocks /\ [][NextLocks]_vars

\* the runtime polls every task that can go on
SpecLocksFair == SpecLocks /\ \A task \in Tasks : WF_vars(TaskStep(task))

AllDone == \A task \in Tasks : TaskAt(task, "done")

\* the lock of a group is only asked for and held under the guard of the map
LockOrder ==
    \A task \in Tasks :
        (TaskAt(task, "group_wait") \/ TaskAt(task, "group_held"))
        => task \in cursor.global.holders

\* C40: calls that run at once on MemStates all complete in the end: the
\* lock of the map is always taken before the lock of a group, and
\* remove_group, which awaits the write lock of the group under the write
\* lock of the map, never waits for ever
C40_AllComplete == <>[](AllDone /\ LockOrder)

\* remove_group holds the write lock of the map and has asked for the lock of
\* its group while the two other calls wait for the map
C40_Witness ==
    \E task \in Tasks :
        /\ table[task].op = "remove_group"
        /\ TaskAt(task, "group_wait")
        /\ cursor.global.writer
        /\ Len(cursor.global.waiters) = 2

====
